---- MODULE Spec2Model ----
(***************************************************************************)
(* Event dispatch pipeline of hooman: normalizer, deduplicator, in-memory  *)
(* priority queue, event router, broker worker loop, kill-switch gate and  *)
(* the Redis reload flag with its polling watcher.                         *)
(*                                                                         *)
(* Four specifications share the variables:                                *)
(*   SpecLocal  - one process, EventRouter without queue adapter           *)
(*   SpecDist   - API process with queue adapter + event-queue worker      *)
(*   SpecRouter - one EventRouter driven through register, unregister and  *)
(*                runHandlersForEvent in any order                         *)
(*   SpecReload - setReloadFlag writers and one initReloadWatch poller     *)
(***************************************************************************)
EXTENDS Integers, Sequences, FiniteSets, TLC

(***************************************************************************)
(* Bounds of the model.                                                    *)
(***************************************************************************)
MaxCalls == 3          \* dispatch calls per behaviour
MaxTime == 60000       \* the clock stops here (ms)
TimeStep == 30000      \* granularity of the clock (ms)
MaxRegs == 2           \* register() calls per behaviour
MaxRuns == 2           \* direct runHandlersForEvent calls per behaviour
MaxKillToggles == 2    \* POST /api/safety/kill-switch calls per behaviour
MaxSets == 2           \* setReloadFlag calls per behaviour
MaxTicks == 2          \* poll ticks of one watcher in flight at once
MaxFaults == 1         \* handler calls that reject per behaviour
MaxRequests == 2       \* HTTP requests to the API per behaviour
MaxProduced == 2       \* enqueueRaw calls per behaviour
MaxMutations == 2      \* configuration mutation requests per behaviour
MaxProducerTime == 90000  \* the clock of the producer specification stops here (ms)
MaxWaits == 2          \* waitForChatResult calls per behaviour
MaxSocketEvents == 3   \* chat-result and disconnect events per behaviour
MaxLoads == 3          \* load() calls of the cron scheduler per behaviour
MaxCronRuns == 3       \* runTask calls of the cron scheduler per behaviour
MaxChatRuns == 2       \* runs of the chat handler per behaviour
MaxAdapterStarts == 3  \* startAdapter calls of one channel worker per behaviour

(***************************************************************************)
(* Program constants.                                                      *)
(***************************************************************************)
DEDUP_TTL_MS == 60000
PRIO_MESSAGE_SENT == 10
PRIO_TASK_SCHEDULED == 5
PRIO_INTERNAL == 8
PRIO_FALLBACK == 5

Missing == "<missing>"     \* an absent key / undefined
NonString == "<number>"    \* a value whose typeof is not "string"
NoPriority == -1           \* raw.priority == null
InheritedFunction == -2    \* a function inherited from Object.prototype
NoCorrelation == "<none>"  \* options.correlationId undefined

\* the handler functions, in the order the model registers them
HandlerIds == <<"h1", "h2">>

(***************************************************************************)
(* Raw dispatch inputs.  A raw payload is a map over Fields; Missing marks *)
(* an absent key.                                                          *)
(***************************************************************************)
Fields == {"text", "userId", "intent", "execute_at", "cron", "integrationId",
           "originalType"}

Payload(text, userId, intent, execute_at, cron) ==
  [text |-> text, userId |-> userId, intent |-> intent,
   execute_at |-> execute_at, cron |-> cron,
   integrationId |-> Missing, originalType |-> Missing]

\* the payload of an MCP integration callback
McpPayload(integrationId, originalType) ==
  [Payload(Missing, Missing, Missing, Missing, Missing)
     EXCEPT !.integrationId = integrationId, !.originalType = originalType]

RawMessage ==
  [source |-> "api", type |-> "message.sent",
   payload |-> Payload("hi", "default", Missing, Missing, Missing),
   priority |-> NoPriority]

RawMessageNoUser ==
  [source |-> "api", type |-> "message.sent",
   payload |-> Payload("hi", Missing, Missing, Missing, Missing),
   priority |-> NoPriority]

RawTask ==
  [source |-> "scheduler", type |-> "task.scheduled",
   payload |-> Payload(Missing, Missing, "send report", "2025-02-05T14:00:00Z", Missing),
   priority |-> NoPriority]

RawReaction ==
  [source |-> "slack", type |-> "reaction.added",
   payload |-> Payload(NonString, Missing, Missing, Missing, Missing),
   priority |-> 5]

\* The dispatch calls the model makes: a raw input and options.correlationId.
DispatchInputs ==
  { <<RawMessage, NoCorrelation>>, <<RawMessageNoUser, "c1">>,
    <<RawTask, NoCorrelation>> }

(***************************************************************************)
(* HTTP request bodies of POST /api/internal/dispatch.  payloadType is the *)
(* typeof of body.payload; payload holds its keys when it is an object.    *)
(***************************************************************************)
Body(source, type, payloadType, payload, priority) ==
  [source |-> source, type |-> type, payloadType |-> payloadType,
   payload |-> payload, priority |-> priority]

BodyOf(raw) == Body(raw.source, raw.type, "object", raw.payload, raw.priority)

NoKeys == Payload(Missing, Missing, Missing, Missing, Missing)

BodyNoSource == Body(Missing, "message.sent", "object", RawMessage.payload, NoPriority)

BodyNoType == Body("api", Missing, "object", RawMessage.payload, NoPriority)

BodyScalarPayload == Body("api", "message.sent", "number", NoKeys, NoPriority)

BodyNoPayload == Body("api", "message.sent", "undefined", NoKeys, NoPriority)

BodyEmptySource == Body("", "", "object", RawMessage.payload, NoPriority)

ApiBodies ==
  { BodyOf(RawMessage), BodyOf(RawTask), BodyNoSource, BodyNoType,
    BodyScalarPayload, BodyNoPayload, BodyEmptySource }

\* req.body.text of POST /api/chat
ChatTexts == {"hi", ""}

(***************************************************************************)
(* Normalizer.                                                             *)
(***************************************************************************)
\* names every object literal inherits from Object.prototype
ObjectPrototypeKeys == {"constructor", "toString"}

\* DEFAULT_PRIORITY[type] ?? 5: a property lookup on an object literal, which
\* also finds the inherited properties; those are functions, not null, so
\* the ?? does not replace them
DEFAULT_PRIORITY(type) ==
  CASE type = "message.sent" -> PRIO_MESSAGE_SENT
    [] type = "task.scheduled" -> PRIO_TASK_SCHEDULED
    [] type = "internal" -> PRIO_INTERNAL
    [] type \in ObjectPrototypeKeys -> InheritedFunction
    [] OTHER -> PRIO_FALLBACK

normalizePriority(raw) ==
  IF raw.priority # NoPriority THEN raw.priority ELSE DEFAULT_PRIORITY(raw.type)

IsString(v) == v # Missing /\ v # NonString

\* Normalized payloads share one record shape; Missing marks an omitted key.
NormPayload(kind, text, userId, intent, execute_at, cron, data) ==
  [kind |-> kind, text |-> text, userId |-> userId, intent |-> intent,
   execute_at |-> execute_at, cron |-> cron, data |-> data,
   integrationId |-> Missing, originalType |-> Missing]

\* v.trim() of a string of the model
Trim(v) == IF v = " " THEN "" ELSE v

\* typeof v === "string" && v.trim() !== "" ? v.trim() : undefined
TrimmedOrMissing(v) == IF IsString(v) /\ Trim(v) # "" THEN Trim(v) ELSE Missing

\* mutation: the text is taken over whatever its type
textOfUnchecked(payload) == payload.text

\* line 157: typeof payload.text === "string" ? payload.text : ""
textOf(payload) == IF IsString(payload.text) THEN payload.text ELSE ""

normalizePayload(source, type, payload) ==
  IF type = "message.sent"
  THEN NormPayload("message",
                   textOf(payload),
                   IF IsString(payload.userId) THEN payload.userId ELSE "default",
                   Missing, Missing, Missing, Missing)
  ELSE IF type = "task.scheduled"
  THEN NormPayload("scheduled_task", Missing, Missing,
                   IF IsString(payload.intent) THEN payload.intent ELSE "",
                   TrimmedOrMissing(payload.execute_at),
                   TrimmedOrMissing(payload.cron),
                   Missing)
  ELSE IF type = "chat.turn_completed"
  THEN NormPayload("internal", Missing, Missing, Missing, Missing, Missing, payload)
  ELSE IF /\ source = "mcp"
          /\ IsString(payload.integrationId)
          /\ IsString(payload.originalType)
  THEN [NormPayload("integration_event", Missing, Missing, Missing, Missing,
                    Missing, Missing)
          EXCEPT !.integrationId = payload.integrationId,
                 !.originalType = payload.originalType]
  ELSE NormPayload("internal", Missing, Missing, Missing, Missing, Missing, payload)

eventKey(e) == <<e.source, e.type, e.payload>>

\* mutation: the correlation id of the caller is ignored
createNormalizedEventFreshId(raw, correlationId, fresh, timestamp) ==
  [id |-> fresh,
   source |-> raw.source,
   type |-> raw.type,
   payload |-> normalizePayload(raw.source, raw.type, raw.payload),
   timestamp |-> timestamp,
   priority |-> normalizePriority(raw)]

\* fresh stands for the value randomUUID() would return.
createNormalizedEvent(raw, correlationId, fresh, timestamp) ==
  [id |-> IF correlationId # NoCorrelation THEN correlationId ELSE fresh,
   source |-> raw.source,
   type |-> raw.type,
   payload |-> normalizePayload(raw.source, raw.type, raw.payload),
   timestamp |-> timestamp,
   priority |-> normalizePriority(raw)]

(***************************************************************************)
(* State.                                                                  *)
(***************************************************************************)
VARIABLES
  handlers,       \* EventRouter.handlers of the process that runs handlers
  queue,          \* EventRouter.queue (in-memory, local mode)
  processing,     \* EventRouter.processing
  queueAdapter,   \* TRUE iff setQueueAdapter(adapter) was called with a broker
  seenEventKeys,  \* module-level Set of dedup keys
  dedupTimers,    \* pending setTimeout(() => seenEventKeys.delete(key))
  now,            \* wall clock, ms
  killSwitch,     \* value returned by getKillSwitchEnabled()
  killToggles,    \* number of kill-switch POSTs so far
  nextId,         \* number of randomUUID() values drawn so far
  regs,           \* number of register() calls so far
  calls,          \* history: every dispatch call, in call order
  enqueued,       \* history: every event handed to the queue or the broker
  batches,        \* history: every runHandlersForEvent call, in start order
  broker,         \* jobs waiting in the shared broker
  workerJob,      \* batch the event-queue worker is running, 0 if idle
  flag,           \* Redis key hooman:workers:reload is "1"
  ticks,          \* per timer slot: progress of a poll tick in flight
  setCount,       \* number of setReloadFlag calls so far
  epochs,         \* number of times the flag went from absent to set
  reloadStarts,   \* number of onReload invocations so far
  reloadsRunning, \* number of onReload invocations not yet settled
  unserved,       \* a set happened and no onReload has started since
  overlapped,     \* two ticks were between their GET and their DEL at once
  faults,         \* history: <<batch, index>> of every handler call that rejected
  responses,      \* history: every HTTP response of the API, in order
  audit,          \* the audit store shared by the API and the workers
  outcomes,       \* history: every handler run that reached an outcome
  chatResults,    \* POST /api/internal/chat-result requests in flight
  relayed,        \* history: every chat-result emitted on Socket.IO
  turns,          \* history: chat.turn_completed inputs dispatched by the chat handler
  watch,          \* per worker process: progress of its poll tick in flight
  scopesSet,      \* history: the scopes setReloadFlag was called for so far
  scopeReloads,   \* history: every onReload call of a worker, with the scopes set before it
  nin,            \* the raw input handed to createNormalizedEvent
  nout,           \* <<e>> once createNormalizedEvent returned e
  ksView,         \* per process: the value its getKillSwitchEnabled() returns
  ksSets,         \* history: every POST /api/safety/kill-switch, in order
  failedAt,       \* history: <<setCount, reloadStarts>> at the first failed poll
  dedupSet,       \* the Set a producer passes to enqueueRaw as options.dedupSet
  produced,       \* history: every enqueueRaw call, in call order
  cfgLog,         \* every configuration mutation request of the API, with its progress
  cfgReads,       \* history: per onReload call, the mutations persisted and flagged by then
  socketInstance, \* the web client's socket: 0 is null, n the n-th socket made by io()
  connected,      \* socketInstance.connected
  waits,          \* every waitForChatResult call: its promise, listeners and timer
  socketEvents,   \* history: every event a socket emitted to its listeners
  addFailed,      \* history: the producer calls whose queue.add rejected
  cstore,         \* the schedule store: the ids of the tasks in it
  cjobs,          \* every node-schedule job the cron worker made, with its state
  jobsMap,        \* the Map jobs of runCronScheduler: task id -> job (0: no entry)
  cruns,          \* every runTask call, with its progress
  cloads,         \* every load() call, with its progress and the tasks getAll returned
  cdispatched,    \* history: every dispatch call of runTask that settled, with its outcome
  cronDue,        \* Date.now() has reached the execute_at of the one-shot task
  cstoreLog,      \* history: the ids the API added and the ids it cancelled
  chatRuns,       \* every run of the chat handler on a message event, with its progress
  responseStore,  \* the API's responseStore: every message pushed, with its event id
  nested,         \* history: the dispatch calls made from inside a running handler
  channelWorkers  \* per channel worker: its progress, its eventQueue variable, the queues it created

routerVars == <<handlers, queue, processing, queueAdapter, seenEventKeys,
                dedupTimers, now, killSwitch, killToggles, nextId, regs,
                calls, enqueued, batches, broker, workerJob>>
reloadVars == <<flag, ticks, setCount, epochs, reloadStarts, reloadsRunning,
                unserved, overlapped>>
auditVars == <<audit, outcomes, chatResults, relayed, turns>>
scopeVars == <<watch, scopesSet, scopeReloads>>
normVars == <<nin, nout>>
killVars == <<ksView, ksSets>>
prodVars == <<dedupSet, produced>>
cfgVars == <<cfgLog, cfgReads>>
waitVars == <<socketInstance, connected, waits, socketEvents>>
cronVars == <<cstore, cjobs, jobsMap, cruns, cloads, cdispatched, cronDue, cstoreLog>>
vars == <<routerVars, reloadVars, faults, responses, auditVars, scopeVars, normVars, killVars, failedAt, prodVars, cfgVars, waitVars, addFailed, cronVars, chatRuns, responseStore, nested, channelWorkers>>

(***************************************************************************)
(* Helpers on sequences.                                                   *)
(***************************************************************************)
\* the processes that call initKillSwitch
KillProcesses == {"api", "event-queue"}

\* req.body?.enabled of POST /api/safety/kill-switch
JsTrue == "<true>"     \* the boolean true of a JSON body
JsFalse == "<false>"   \* the boolean false of a JSON body

JsZero == "<0>"        \* the number 0 of a JSON body
JsOne == "<1>"         \* the number 1 of a JSON body

KillBodies == {JsTrue, JsFalse, Missing, "yes", "", JsZero, JsOne}

\* mutation: the request flips the switch whatever its body says
requestedValueFlip(enabled) == ~killSwitch

\* Boolean(req.body?.enabled)
requestedValue(enabled) == enabled \notin {JsFalse, Missing, "", JsZero}

RemoveAt(s, i) == [j \in 1..(Len(s) - 1) |-> IF j < i THEN s[j] ELSE s[j + 1]]

SeqFilterOut(s, h) == SelectSeq(s, LAMBDA x : x # h)

\* mutation: the handler is put in front of the list
pushHandlerFirst(hs, h) == <<h>> \o hs

\* this.handlers.push(handler)
pushHandler(hs, h) == Append(hs, h)

RECURSIVE InsertSorted(_, _)
\* position of e in a list already sorted by descending priority, after
\* every element of priority >= e.priority (Array.prototype.sort is stable)
InsertSorted(q, e) ==
  IF q = <<>> THEN <<e>>
  ELSE IF Head(q).priority >= e.priority
       THEN <<Head(q)>> \o InsertSorted(Tail(q), e)
       ELSE <<e>> \o q

\* mutation: the sort after the push is left out
PushNoSort(q, e) == Append(q, e)

\* this.queue.push(event); this.queue.sort((a, b) => b.priority - a.priority)
PushAndSort(q, e) == InsertSorted(q, e)

MaxPriority(q) ==
  IF q = <<>> THEN NoPriority
  ELSE CHOOSE p \in {q[i].priority : i \in 1..Len(q)} :
         \A i \in 1..Len(q) : q[i].priority <= p

(***************************************************************************)
(* EventRouter.runHandlersForEvent: the synchronous start of the call.     *)
(* A batch records one call: the array being iterated (iter), whether that *)
(* array object is still this.handlers (live), the handlers invoked so far *)
(* in invocation order, and the indices of invoked, unsettled handlers;    *)
(* gates records the kill switch at the invocation of each handler;        *)
(* kill, start and pendingMax record the kill switch, this.handlers and    *)
(* the highest priority left in the queue when the call was made.          *)
(***************************************************************************)
\* mutation: the handlers are invoked without awaiting the previous one
BatchAllAtOnce(e, owner, iter, pendingMax) ==
  [ev |-> e, owner |-> owner, kill |-> killSwitch, start |-> handlers,
   iter |-> iter,
   live |-> (iter # <<>>),
   invoked |-> iter,
   gates |-> [i \in 1..Len(iter) |-> killSwitch],
   active |-> 1..Len(iter),
   pendingMax |-> pendingMax,
   failed |-> FALSE,
   done |-> (iter = <<>>)]

\* the handlers are awaited one after the other: only the first is invoked
\* when the loop starts
Batch(e, owner, iter, pendingMax) ==
  [ev |-> e, owner |-> owner, kill |-> killSwitch, start |-> handlers,
   iter |-> iter,
   live |-> (iter # <<>>),
   invoked |-> IF iter = <<>> THEN <<>> ELSE <<iter[1]>>,
   gates |-> IF iter = <<>> THEN <<>> ELSE <<killSwitch>>,
   active |-> IF iter = <<>> THEN {} ELSE {1},
   pendingMax |-> pendingMax,
   failed |-> FALSE,
   done |-> (iter = <<>>)]

\* mutation: the kill-switch gate is left out
runHandlersForEventNoGate(e, owner, pendingMax) ==
  Batch(e, owner, handlers, pendingMax)

\* line 77: if (getKillSwitchEnabled()) return;
runHandlersForEvent(e, owner, pendingMax) ==
  IF killSwitch
  THEN Batch(e, owner, <<>>, pendingMax)
  ELSE Batch(e, owner, handlers, pendingMax)

(***************************************************************************)
(* EventRouter.processQueue.                                               *)
(***************************************************************************)
\* mutation: the processing flag is not consulted
processQueueReturnsNoFlag(q) == Len(q) = 0 \/ killSwitch

\* line 113-114: the conditions under which processQueue returns at once
processQueueReturns(q) == processing \/ Len(q) = 0 \/ killSwitch

\* mutation: the kill-switch check inside the while loop is left out
loopStopsIgnoringSwitch(q) == Len(q) = 0

\* line 116-117: the while condition fails or the kill switch breaks the loop
loopStops(q) == Len(q) = 0 \/ killSwitch

RECURSIVE processLoop(_, _, _)
\* The while loop from its head, run until its first suspension at an
\* unsettled handler or until it leaves the loop.  owner is the dispatch call
\* whose processQueue runs the loop.
processLoop(owner, q, bs) ==
  IF loopStops(q)
  THEN [queue |-> q, batches |-> bs, running |-> FALSE]
  ELSE LET b == runHandlersForEvent(Head(q), owner, MaxPriority(Tail(q)))
       IN IF b.done
          THEN processLoop(owner, Tail(q), Append(bs, b))
          ELSE [queue |-> Tail(q), batches |-> Append(bs, b), running |-> TRUE]

(***************************************************************************)
(* Reload flag: one poll tick of initReloadWatch is the sequence of awaits *)
(* of the setInterval callback.  pc = 0: no tick in this slot.             *)
(***************************************************************************)
\* mutation: the flag is cleared after the reload callback instead of before
TickProgramReloadFirst == <<"get", "reload", "del">>

TickProgram == <<"get", "del", "reload">>

IdleTick == [pc |-> 0, running |-> FALSE]

TickOp(t) == IF t.pc = 0 THEN "none" ELSE TickProgram[t.pc]

\* the tick moves to its next await, or ends after the last one
Advance(t) == IF t.pc < Len(TickProgram)
              THEN [pc |-> t.pc + 1, running |-> FALSE]
              ELSE IdleTick

\* mutation: only the Redis calls are guarded, the callback goes on to onReload
afterStoreErrorGoesOn(t) == [pc |-> Len(TickProgram), running |-> FALSE]

\* line 52-54: the catch block ends the tick; the interval timer stays armed
afterStoreError(t) == IdleTick

\* mutation: the DEL leaves the key in place
redisDelNoop(f) == f

\* value of the key after redis.del(REDIS_KEY); f is its value before
redisDel(f) == FALSE

\* value of the key after redis.set(REDIS_KEY, "1")
redisSet(f) == TRUE

\* the tick has read "1" and has not started onReload yet
ReloadAhead(t) ==
  /\ t.pc > 1
  /\ ~t.running
  /\ \E k \in t.pc..Len(TickProgram) : TickProgram[k] = "reload"

\* the tick has read "1" and its DEL has not been executed yet
DelAhead(t) ==
  /\ t.pc > 1
  /\ \E k \in t.pc..Len(TickProgram) : TickProgram[k] = "del"

\* the worker processes that watch the flag, named by the scope each passes
\* to initReloadWatch (cron worker, Slack worker)
Watchers == {"schedule", "slack"}

\* the scopes the API passes to setReloadFlag
ReloadScopes == {"schedule", "slack"}

(***************************************************************************)
(* Initial states.                                                         *)
(***************************************************************************)
InitReload ==
  /\ flag = FALSE
  /\ ticks = [s \in 1..MaxTicks |-> IdleTick]
  /\ setCount = 0
  /\ epochs = 0
  /\ reloadStarts = 0
  /\ reloadsRunning = 0
  /\ unserved = FALSE
  /\ overlapped = FALSE

InitPipeline ==
  /\ queue = <<>>
  /\ processing = FALSE
  /\ seenEventKeys = {}
  /\ dedupTimers = {}
  /\ now = 0
  /\ killSwitch = FALSE
  /\ killToggles = 0
  /\ nextId = 0
  /\ calls = <<>>
  /\ enqueued = <<>>
  /\ batches = <<>>
  /\ broker = <<>>
  /\ workerJob = 0
  /\ faults = {}
  /\ responses = <<>>
  /\ audit = <<>>
  /\ outcomes = <<>>
  /\ chatResults = <<>>
  /\ relayed = <<>>
  /\ turns = <<>>
  /\ watch = [w \in Watchers |-> IdleTick]
  /\ scopesSet = {}
  /\ scopeReloads = <<>>
  /\ ksView = [p \in KillProcesses |-> FALSE]
  /\ ksSets = <<>>
  /\ failedAt = <<>>
  /\ dedupSet = {}
  /\ produced = <<>>
  /\ cfgLog = <<>>
  /\ cfgReads = <<>>
  /\ socketInstance = 0
  /\ connected = FALSE
  /\ waits = <<>>
  /\ socketEvents = <<>>
  /\ addFailed = <<>>
  /\ cstore = {}
  /\ cjobs = <<>>
  /\ jobsMap = [t \in {"once", "daily"} |-> 0]
  /\ cruns = <<>>
  /\ cloads = <<>>
  /\ cdispatched = <<>>
  /\ cronDue = FALSE
  /\ cstoreLog = [added |-> {}, cancelled |-> {}]
  /\ chatRuns = <<>>
  /\ responseStore = <<>>
  /\ nested = <<>>
  /\ channelWorkers = [n \in {"slack", "whatsapp"} |->
       [state |-> "boot", starting |-> 0, starts |-> 0, eventQueue |-> 0, queues |-> <<>>]]

\* no call of the normalizer is under observation
InitNormIdle == nin = RawMessage /\ nout = <<>>

\* a process after new EventRouter()
InitRouter ==
  /\ handlers = <<>>
  /\ regs = 0
  /\ InitPipeline

\* a process after its start-up code has run registerEventHandlers, which
\* registers the handlers one after the other before any event arrives
InitStarted ==
  /\ handlers = HandlerIds
  /\ regs = Len(HandlerIds)
  /\ InitPipeline

InitLocal == InitStarted /\ queueAdapter = FALSE /\ InitReload /\ InitNormIdle

InitDist == InitStarted /\ queueAdapter = TRUE /\ InitReload /\ InitNormIdle

InitUnit == InitRouter /\ queueAdapter = FALSE /\ InitReload /\ InitNormIdle

(***************************************************************************)
(* EventRouter.register and the unregister function it returns.            *)
(***************************************************************************)
\* this.handlers.push(handler): the array object is mutated in place, so a
\* for..of loop that is iterating over it sees the new element.
Register(h) ==
  /\ regs < MaxRegs
  /\ regs' = regs + 1
  /\ handlers' = pushHandler(handlers, h)
  /\ batches' = [i \in 1..Len(batches) |->
                   IF batches[i].live /\ ~batches[i].done
                   THEN [batches[i] EXCEPT !.iter = pushHandler(@, h)]
                   ELSE batches[i]]
  /\ UNCHANGED <<queue, processing, queueAdapter, seenEventKeys, dedupTimers,
                 now, killSwitch, killToggles, nextId, calls, enqueued,
                 broker, workerJob, reloadVars, faults, responses, auditVars, scopeVars, normVars, killVars, failedAt, prodVars, cfgVars, waitVars, addFailed, cronVars, chatRuns, responseStore, nested, channelWorkers>>

\* this.handlers = this.handlers.filter((h) => h !== handler): a new array;
\* a loop in progress keeps iterating over the old one.
Unregister(h) ==
  /\ \E i \in 1..Len(handlers) : handlers[i] = h
  /\ handlers' = SeqFilterOut(handlers, h)
  /\ batches' = [i \in 1..Len(batches) |-> [batches[i] EXCEPT !.live = FALSE]]
  /\ UNCHANGED <<queue, processing, queueAdapter, seenEventKeys, dedupTimers,
                 now, killSwitch, killToggles, nextId, regs, calls, enqueued,
                 broker, workerJob, reloadVars, faults, responses, auditVars, scopeVars, normVars, killVars, failedAt, prodVars, cfgVars, waitVars, addFailed, cronVars, chatRuns, responseStore, nested, channelWorkers>>

(***************************************************************************)
(* POST /api/safety/kill-switch.                                           *)
(***************************************************************************)
SetKillSwitch(enabled) ==
  /\ killToggles < MaxKillToggles
  /\ enabled # killSwitch
  /\ killToggles' = killToggles + 1
  /\ killSwitch' = enabled
  /\ UNCHANGED <<handlers, queue, processing, queueAdapter, seenEventKeys,
                 dedupTimers, now, nextId, regs, calls, enqueued, batches,
                 broker, workerJob, reloadVars, faults, responses, auditVars, scopeVars, normVars, killVars, failedAt, prodVars, cfgVars, waitVars, addFailed, cronVars, chatRuns, responseStore, nested, channelWorkers>>

(***************************************************************************)
(* Time and the dedup timers.                                              *)
(***************************************************************************)
\* The clock advances; a timer that is due runs before the clock moves on.
TickUntil(limit) ==
  /\ now < limit
  /\ \A t \in dedupTimers : t.due > now
  /\ now' = IF now + TimeStep <= limit THEN now + TimeStep ELSE limit
  /\ UNCHANGED <<handlers, queue, processing, queueAdapter, seenEventKeys,
                 dedupTimers, killSwitch, killToggles, nextId, regs, calls,
                 enqueued, batches, broker, workerJob, reloadVars, faults, responses, auditVars, scopeVars, normVars, killVars, failedAt, prodVars, cfgVars, waitVars, addFailed, cronVars, chatRuns, responseStore, nested, channelWorkers>>

Tick == TickUntil(MaxTime)

\* setTimeout(() => seenEventKeys.delete(key), DEDUP_TTL_MS) fires
DedupExpire(t) ==
  /\ t \in dedupTimers
  /\ t.due <= now
  /\ seenEventKeys' = seenEventKeys \ {t.key}
  /\ dedupTimers' = dedupTimers \ {t}
  /\ UNCHANGED <<handlers, queue, processing, queueAdapter, now, killSwitch,
                 killToggles, nextId, regs, calls, enqueued, batches, broker,
                 workerJob, reloadVars, faults, responses, auditVars, scopeVars, normVars, killVars, failedAt, prodVars, cfgVars, waitVars, addFailed, cronVars, chatRuns, responseStore, nested, channelWorkers>>

(***************************************************************************)
(* EventRouter.dispatch.                                                   *)
(***************************************************************************)
\* mutation: the dedup set is not consulted
IsDuplicateNever(key) == FALSE

\* line 97: the key of the event is in the dedup set
IsDuplicate(key) == key \in seenEventKeys

\* mutation: the queue adapter is not consulted
hasQueueAdapterIgnored == FALSE

\* line 101: if (this.queueAdapter)
hasQueueAdapter == queueAdapter

Call(raw, correlationId, e, accepted, returned) ==
  [raw |-> raw, correlationId |-> correlationId, at |-> now,
   kill |-> killSwitch, id |-> e.id, ev |-> e, accepted |-> accepted,
   returned |-> returned]

dispatch(raw, correlationId) ==
  /\ Len(calls) < MaxCalls
  /\ LET fresh == <<"uuid", nextId + 1>>
         e == createNormalizedEvent(raw, correlationId, fresh, now)
         key == eventKey(e)
         c == Len(calls) + 1
     IN /\ nextId' = IF correlationId = NoCorrelation THEN nextId + 1 ELSE nextId
        /\ IF IsDuplicate(key)
           THEN /\ calls' = Append(calls, Call(raw, correlationId, e, FALSE, TRUE))
                /\ UNCHANGED <<seenEventKeys, dedupTimers, queue, processing,
                               enqueued, batches, broker>>
           ELSE /\ seenEventKeys' = seenEventKeys \cup {key}
                /\ dedupTimers' = dedupTimers \cup
                                    {[key |-> key, due |-> now + DEDUP_TTL_MS]}
                /\ enqueued' = Append(enqueued, e)
                /\ IF hasQueueAdapter
                   THEN /\ broker' = Append(broker, e)
                        /\ calls' = Append(calls, Call(raw, correlationId, e, TRUE, TRUE))
                        /\ UNCHANGED <<queue, processing, batches>>
                   ELSE LET q == PushAndSort(queue, e)
                        IN IF processQueueReturns(q)
                           THEN /\ queue' = q
                                /\ calls' = Append(calls,
                                             Call(raw, correlationId, e, TRUE, TRUE))
                                /\ UNCHANGED <<processing, batches, broker>>
                           ELSE LET r == processLoop(c, q, batches)
                                IN /\ queue' = r.queue
                                   /\ batches' = r.batches
                                   /\ processing' = r.running
                                   /\ calls' = Append(calls,
                                        Call(raw, correlationId, e, TRUE, ~r.running))
                                   /\ UNCHANGED broker
  /\ UNCHANGED <<handlers, queueAdapter, now, killSwitch, killToggles, regs,
                 workerJob, reloadVars, faults, auditVars, scopeVars, normVars, killVars, failedAt, prodVars, cfgVars, waitVars, addFailed, cronVars, chatRuns, responseStore, channelWorkers>>

\* dispatch called by a producer in the same process
Dispatch(raw, correlationId) ==
  /\ dispatch(raw, correlationId)
  /\ UNCHANGED <<responses, nested>>

(***************************************************************************)
(* A handler invoked by runHandlersForEvent settles (resolves or rejects); *)
(* the for..of loop goes on with the next element of the array, and after  *)
(* the last one the caller of runHandlersForEvent continues.               *)
(***************************************************************************)
\* mutation: the kill switch is read again before every handler
loopContinuesUnlessEngaged(old) == Len(old.invoked) < Len(old.iter) /\ ~killSwitch

\* line 78: the for..of loop over this.handlers has a next element
loopContinues(old) == Len(old.invoked) < Len(old.iter)

\* mutation: the try/catch around the handler call is left out, so a
\* rejection leaves the for..of loop and rejects runHandlersForEvent
settleUncaught(old, i, rejected) ==
  LET n == Len(old.invoked)
      settled == [old EXCEPT !.active = @ \ {i}]
  IN IF rejected
     THEN [settled EXCEPT !.done = TRUE, !.live = FALSE, !.failed = TRUE]
     ELSE IF loopContinues(old)
     THEN [settled EXCEPT !.invoked = Append(@, old.iter[n + 1]),
                          !.gates = Append(@, killSwitch),
                          !.active = @ \cup {n + 1}]
     ELSE [settled EXCEPT !.done = (settled.active = {}),
                          !.live = IF settled.active = {} THEN FALSE ELSE @]

\* line 78-84: the batch after the handler at index i settled.  A rejection
\* is caught and logged; either way the loop goes on with the next element
\* of the array, and the call's promise is fulfilled after the last one.
settle(old, i, rejected) ==
  LET n == Len(old.invoked)
      settled == [old EXCEPT !.active = @ \ {i}]
  IN IF loopContinues(old)
     THEN [settled EXCEPT !.invoked = Append(@, old.iter[n + 1]),
                          !.gates = Append(@, killSwitch),
                          !.active = @ \cup {n + 1}]
     ELSE [settled EXCEPT !.done = (settled.active = {}),
                          !.live = IF settled.active = {} THEN FALSE ELSE @]

HandlerSettle(b, i, rejected) ==
  /\ b \in 1..Len(batches)
  /\ ~batches[b].done
  /\ i \in batches[b].active
  /\ rejected => Cardinality(faults) < MaxFaults
  /\ faults' = IF rejected THEN faults \cup {<<b, i>>} ELSE faults
  /\ LET old == batches[b]
         new == settle(old, i, rejected)
         bs == [batches EXCEPT ![b] = new]
     IN IF ~new.done
        THEN /\ batches' = bs
             /\ UNCHANGED <<queue, processing, calls, workerJob>>
        ELSE IF old.owner = 0
        THEN \* the worker's job callback returns: the job is completed
             /\ batches' = bs
             /\ workerJob' = 0
             /\ UNCHANGED <<queue, processing, calls>>
        ELSE IF new.failed
        THEN \* line 119: the await throws out of processQueue and dispatch;
             \* line 121 is not reached
             /\ batches' = bs
             /\ UNCHANGED <<queue, processing, calls, workerJob>>
        ELSE \* back in processQueue's while loop
             LET r == processLoop(old.owner, queue, bs)
             IN /\ queue' = r.queue
                /\ batches' = r.batches
                /\ processing' = r.running
                /\ calls' = IF r.running THEN calls
                            ELSE [calls EXCEPT ![old.owner].returned = TRUE]
                /\ UNCHANGED workerJob
  /\ UNCHANGED <<handlers, queueAdapter, seenEventKeys, dedupTimers, now,
                 killSwitch, killToggles, nextId, regs, enqueued, broker,
                 reloadVars, responses, auditVars, scopeVars, normVars, killVars, failedAt, prodVars, cfgVars, waitVars, addFailed, cronVars, chatRuns, responseStore, nested, channelWorkers>>

(***************************************************************************)
(* Event-queue worker: the broker hands one waiting job to the callback    *)
(* given to startWorker, which calls runHandlersForEvent.                  *)
(***************************************************************************)
WorkerPull(j) ==
  /\ workerJob = 0
  /\ j \in 1..Len(broker)
  /\ LET b == runHandlersForEvent(broker[j], 0, NoPriority)
     IN /\ batches' = Append(batches, b)
        /\ workerJob' = IF b.done THEN 0 ELSE Len(batches) + 1
  /\ broker' = RemoveAt(broker, j)
  /\ UNCHANGED <<handlers, queue, processing, queueAdapter, seenEventKeys,
                 dedupTimers, now, killSwitch, killToggles, nextId, regs,
                 calls, enqueued, reloadVars, faults, responses, auditVars, scopeVars, normVars, killVars, failedAt, prodVars, cfgVars, waitVars, addFailed, cronVars, chatRuns, responseStore, nested, channelWorkers>>

(***************************************************************************)
(* runHandlersForEvent called directly on the router (it is public).       *)
(***************************************************************************)
RunHandlers(e) ==
  /\ Len(batches) < MaxRuns
  /\ batches' = Append(batches, runHandlersForEvent(e, 0, NoPriority))
  /\ UNCHANGED <<handlers, queue, processing, queueAdapter, seenEventKeys,
                 dedupTimers, now, killSwitch, killToggles, nextId, regs,
                 calls, enqueued, broker, workerJob, reloadVars, faults, responses, auditVars, scopeVars, normVars, killVars, failedAt, prodVars, cfgVars, waitVars, addFailed, cronVars, chatRuns, responseStore, nested, channelWorkers>>

(***************************************************************************)
(* HTTP routes of the API process.  The API process always has a queue     *)
(* adapter, so dispatch returns as soon as the broker has the event.       *)
(***************************************************************************)
NoId == <<"none", 0>>

Response(route, body, status, call, id) ==
  [route |-> route, body |-> body, kill |-> killSwitch, status |-> status,
   call |-> call, id |-> id]

Respond(r) ==
  /\ responses' = Append(responses, r)
  /\ UNCHANGED <<routerVars, reloadVars, faults, auditVars, scopeVars, normVars, killVars, failedAt, prodVars, cfgVars, waitVars, addFailed, cronVars, chatRuns, responseStore, nested, channelWorkers>>

\* line 167-174 of the routes: the body is accepted
validBody(body) ==
  /\ IsString(body.source)
  /\ IsString(body.type)
  /\ body.payloadType = "object"

\* POST /api/internal/dispatch; authorized: INTERNAL_SECRET is unset or the
\* x-internal-secret header matches it
PostInternalDispatch(body, authorized) ==
  /\ Len(responses) < MaxRequests
  /\ IF ~authorized
     THEN Respond(Response("dispatch", body, 401, 0, NoId))
     ELSE IF ~validBody(body)
     THEN Respond(Response("dispatch", body, 400, 0, NoId))
     ELSE /\ dispatch([source |-> body.source, type |-> body.type,
                       payload |-> body.payload, priority |-> body.priority],
                      NoCorrelation)
          /\ responses' = Append(responses,
               Response("dispatch", body, 200, Len(calls) + 1,
                        calls'[Len(calls) + 1].id))
          /\ UNCHANGED nested

\* mutation: POST /api/chat does not consult the kill switch
chatGateOpen == FALSE

\* line 444: if (getKillSwitchEnabled()) respond 503
chatGate == killSwitch

\* POST /api/chat without attachments
PostChat(text) ==
  /\ Len(responses) < MaxRequests
  /\ LET eventId == <<"uuid-chat", Len(responses) + 1>>
         body == [text |-> text]
     IN IF chatGate
        THEN Respond(Response("chat", body, 503, 0, NoId))
        ELSE IF text = ""
        THEN Respond(Response("chat", body, 400, 0, NoId))
        ELSE /\ dispatch([source |-> "api", type |-> "message.sent",
                          payload |-> Payload(text, "default", Missing, Missing, Missing),
                          priority |-> NoPriority],
                         eventId)
             /\ responses' = Append(responses,
                  Response("chat", body, 202, Len(calls) + 1, eventId))
             /\ UNCHANGED nested

(***************************************************************************)
(* The handlers of registerEventHandlers, run by the event-queue worker on *)
(* a job of the broker, and the route the worker posts chat results to.    *)
(* ok: the agent run inside the handler's try block did not throw.  The    *)
(* chat handler dispatches chat.turn_completed on the worker's own router; *)
(* turns records that input.                                               *)
(***************************************************************************)
AuditEntry(type, eventId, proc) == [type |-> type, eventId |-> eventId, proc |-> proc]

\* AuditLog.emitResponse: one "decision" entry, then the response listeners
emitResponse(log, eventId, proc) == Append(log, AuditEntry("decision", eventId, proc))

\* AuditLog.appendAuditEntry
appendAuditEntry(log, type, eventId, proc) == Append(log, AuditEntry(type, eventId, proc))

TurnCompleted(e) ==
  [source |-> "api", type |-> "chat.turn_completed",
   payload |-> Payload(e.payload.text, e.payload.userId, Missing, Missing, Missing),
   priority |-> NoPriority]

\* chat handler (event-handlers.ts 63-183) on job j of the broker
ChatHandler(j, ok) ==
  /\ ~killSwitch
  /\ j \in 1..Len(broker)
  /\ broker[j].payload.kind = "message"
  /\ LET e == broker[j]
     IN /\ audit' = IF ok
                    THEN emitResponse(appendAuditEntry(audit, "agent_run", e.id, "worker"),
                                      e.id, "worker")
                    ELSE audit
        /\ turns' = Append(turns, TurnCompleted(e))
        /\ chatResults' = IF e.source = "api"
                          THEN Append(chatResults, [eventId |-> e.id])
                          ELSE chatResults
        /\ outcomes' = Append(outcomes, [ev |-> e, kind |-> "chat", ok |-> ok])
  /\ broker' = RemoveAt(broker, j)
  /\ UNCHANGED <<handlers, queue, processing, queueAdapter, seenEventKeys,
                 dedupTimers, now, killSwitch, killToggles, nextId, regs,
                 calls, enqueued, batches, workerJob, reloadVars, faults,
                 responses, relayed, scopeVars, normVars, killVars, failedAt, prodVars, cfgVars, waitVars, addFailed, cronVars, chatRuns, responseStore, nested, channelWorkers>>

\* scheduled task handler (event-handlers.ts 186-295) on job j of the broker
TaskHandler(j, ok) ==
  /\ ~killSwitch
  /\ j \in 1..Len(broker)
  /\ broker[j].payload.kind = "scheduled_task"
  /\ LET e == broker[j]
         recorded == appendAuditEntry(audit, "scheduled_task", e.id, "worker")
     IN /\ audit' = IF ok
                    THEN emitResponse(appendAuditEntry(recorded, "agent_run", e.id, "worker"),
                                      e.id, "worker")
                    ELSE emitResponse(recorded, e.id, "worker")
        /\ outcomes' = Append(outcomes, [ev |-> e, kind |-> "task", ok |-> ok])
  /\ broker' = RemoveAt(broker, j)
  /\ UNCHANGED <<handlers, queue, processing, queueAdapter, seenEventKeys,
                 dedupTimers, now, killSwitch, killToggles, nextId, regs,
                 calls, enqueued, batches, workerJob, reloadVars, faults,
                 responses, chatResults, relayed, turns, scopeVars, normVars, killVars, failedAt, prodVars, cfgVars, waitVars, addFailed, cronVars, chatRuns, responseStore, nested, channelWorkers>>

\* a job none of the three handlers acts on
OtherJob(j) ==
  /\ ~killSwitch
  /\ j \in 1..Len(broker)
  /\ broker[j].payload.kind \notin {"message", "scheduled_task"}
  /\ broker' = RemoveAt(broker, j)
  /\ UNCHANGED <<handlers, queue, processing, queueAdapter, seenEventKeys,
                 dedupTimers, now, killSwitch, killToggles, nextId, regs,
                 calls, enqueued, batches, workerJob, reloadVars, faults,
                 responses, auditVars, scopeVars, normVars, killVars, failedAt, prodVars, cfgVars, waitVars, addFailed, cronVars, chatRuns, responseStore, nested, channelWorkers>>

\* list.push({ role: "assistant", text }); responseStore.set(eventId, list)
pushResponse(store, eventId, by) == Append(store, [eventId |-> eventId, by |-> by])

\* the listener main gives to auditLog.onResponseReceived, which
\* emitResponse calls with the payload
onResponseReceived(store, eventId) == pushResponse(store, eventId, "onResponseReceived")

\* POST /api/internal/chat-result with the body the worker sends: io.emit,
\* the push to responseStore, then auditLog.emitResponse and its listener
PostChatResult(k) ==
  /\ k \in 1..Len(chatResults)
  /\ relayed' = Append(relayed, chatResults[k].eventId)
  /\ responseStore' = onResponseReceived(
                         pushResponse(responseStore, chatResults[k].eventId, "chat-result"),
                         chatResults[k].eventId)
  /\ audit' = emitResponse(audit, chatResults[k].eventId, "api")
  /\ chatResults' = RemoveAt(chatResults, k)
  /\ UNCHANGED <<routerVars, reloadVars, faults, responses, outcomes, turns,
                 scopeVars, normVars, killVars, failedAt, prodVars, cfgVars, waitVars, addFailed, cronVars, chatRuns, nested, channelWorkers>>

(***************************************************************************)
(* setReloadFlag and the poll tick of initReloadWatch.                     *)
(***************************************************************************)
SetReloadFlag ==
  /\ setCount < MaxSets
  /\ setCount' = setCount + 1
  /\ flag' = redisSet(flag)
  /\ epochs' = IF flag THEN epochs ELSE epochs + 1
  /\ unserved' = TRUE
  /\ UNCHANGED <<ticks, reloadStarts, reloadsRunning, overlapped, routerVars, faults, responses, auditVars, scopeVars, normVars, killVars, failedAt, prodVars, cfgVars, waitVars, addFailed, cronVars, chatRuns, responseStore, nested, channelWorkers>>

\* setInterval fires: the callback starts, whatever earlier ticks are doing
PollTick(s) ==
  /\ ticks[s].pc = 0
  /\ ticks' = [ticks EXCEPT ![s] = [pc |-> 1, running |-> FALSE]]
  /\ UNCHANGED <<flag, setCount, epochs, reloadStarts, reloadsRunning,
                 unserved, overlapped, routerVars, faults, responses, auditVars, scopeVars, normVars, killVars, failedAt, prodVars, cfgVars, waitVars, addFailed, cronVars, chatRuns, responseStore, nested, channelWorkers>>

\* const v = await redis.get(REDIS_KEY); if (v === "1") ...
TickGet(s) ==
  /\ TickOp(ticks[s]) = "get"
  /\ ticks' = [ticks EXCEPT ![s] = IF flag THEN Advance(@) ELSE IdleTick]
  /\ overlapped' = (overlapped \/
                      (flag /\ \E o \in 1..MaxTicks : o # s /\ DelAhead(ticks[o])))
  /\ UNCHANGED <<flag, setCount, epochs, reloadStarts, reloadsRunning,
                 unserved, routerVars, faults, responses, auditVars, scopeVars, normVars, killVars, failedAt, prodVars, cfgVars, waitVars, addFailed, cronVars, chatRuns, responseStore, nested, channelWorkers>>

\* await redis.del(REDIS_KEY)
TickDel(s) ==
  /\ TickOp(ticks[s]) = "del"
  /\ flag' = redisDel(flag)
  /\ ticks' = [ticks EXCEPT ![s] = Advance(@)]
  /\ UNCHANGED <<setCount, epochs, reloadStarts, reloadsRunning, unserved,
                 overlapped, routerVars, faults, responses, auditVars, scopeVars, normVars, killVars, failedAt, prodVars, cfgVars, waitVars, addFailed, cronVars, chatRuns, responseStore, nested, channelWorkers>>

\* redis.get or redis.del rejects: catch { /* keep polling on error */ }
TickStoreError(s) ==
  /\ TickOp(ticks[s]) \in {"get", "del"}
  /\ ticks' = [ticks EXCEPT ![s] = afterStoreError(@)]
  /\ failedAt' = IF failedAt = <<>> THEN <<setCount, reloadStarts>> ELSE failedAt
  /\ UNCHANGED <<flag, setCount, epochs, reloadStarts, reloadsRunning,
                 unserved, overlapped, routerVars, faults, responses, auditVars, scopeVars, normVars, killVars, prodVars, cfgVars, waitVars, addFailed, cronVars, chatRuns, responseStore, nested, channelWorkers>>

\* onReload() is called
ReloadStart(s) ==
  /\ TickOp(ticks[s]) = "reload"
  /\ ~ticks[s].running
  /\ ticks' = [ticks EXCEPT ![s].running = TRUE]
  /\ reloadStarts' = reloadStarts + 1
  /\ reloadsRunning' = reloadsRunning + 1
  /\ unserved' = FALSE
  /\ cfgReads' = Append(cfgReads,
                        [persisted |-> {i \in 1..Len(cfgLog) : cfgLog[i].persisted},
                         flagged |-> {i \in 1..Len(cfgLog) : cfgLog[i].flagged}])
  /\ UNCHANGED <<flag, setCount, epochs, overlapped, routerVars, faults, responses, auditVars, scopeVars, normVars, killVars, failedAt, prodVars, cfgLog, waitVars, addFailed, cronVars, chatRuns, responseStore, nested, channelWorkers>>

\* the promise returned by onReload settles (a rejection is caught)
ReloadSettle(s) ==
  /\ TickOp(ticks[s]) = "reload"
  /\ ticks[s].running
  /\ ticks' = [ticks EXCEPT ![s] = Advance(@)]
  /\ reloadsRunning' = reloadsRunning - 1
  /\ UNCHANGED <<flag, setCount, epochs, reloadStarts, unserved, overlapped,
                 routerVars, faults, responses, auditVars, scopeVars, normVars, killVars, failedAt, prodVars, cfgVars, waitVars, addFailed, cronVars, chatRuns, responseStore, nested, channelWorkers>>

(***************************************************************************)
(* Several worker processes watch the flag.  Each runs initReloadWatch in  *)
(* its own process and polls the same Redis key; the scope arguments of    *)
(* the callers do not reach Redis: there is one key, REDIS_KEY.            *)
(***************************************************************************)
\* setReloadFlag(redisUrl, scope) called by the API
SetReloadFlagScope(scope) ==
  /\ setCount < MaxSets
  /\ setCount' = setCount + 1
  /\ flag' = redisSet(flag)
  /\ epochs' = IF flag THEN epochs ELSE epochs + 1
  /\ unserved' = TRUE
  /\ scopesSet' = scopesSet \cup {scope}
  /\ UNCHANGED <<ticks, reloadStarts, reloadsRunning, overlapped, routerVars,
                 faults, responses, auditVars, watch, scopeReloads, normVars, killVars, failedAt, prodVars, cfgVars, waitVars, addFailed, cronVars, chatRuns, responseStore, nested, channelWorkers>>

\* setInterval fires in worker w while its previous tick is over
WatchPoll(w) ==
  /\ watch[w].pc = 0
  /\ watch' = [watch EXCEPT ![w] = [pc |-> 1, running |-> FALSE]]
  /\ UNCHANGED <<reloadVars, routerVars, faults, responses, auditVars,
                 scopesSet, scopeReloads, normVars, killVars, failedAt, prodVars, cfgVars, waitVars, addFailed, cronVars, chatRuns, responseStore, nested, channelWorkers>>

\* const v = await redis.get(REDIS_KEY); if (v === "1") ...
WatchGet(w) ==
  /\ TickOp(watch[w]) = "get"
  /\ watch' = [watch EXCEPT ![w] = IF flag THEN Advance(@) ELSE IdleTick]
  /\ UNCHANGED <<reloadVars, routerVars, faults, responses, auditVars,
                 scopesSet, scopeReloads, normVars, killVars, failedAt, prodVars, cfgVars, waitVars, addFailed, cronVars, chatRuns, responseStore, nested, channelWorkers>>

\* await redis.del(REDIS_KEY)
WatchDel(w) ==
  /\ TickOp(watch[w]) = "del"
  /\ flag' = redisDel(flag)
  /\ watch' = [watch EXCEPT ![w] = Advance(@)]
  /\ UNCHANGED <<ticks, setCount, epochs, reloadStarts, reloadsRunning,
                 unserved, overlapped, routerVars, faults, responses,
                 auditVars, scopesSet, scopeReloads, normVars, killVars, failedAt, prodVars, cfgVars, waitVars, addFailed, cronVars, chatRuns, responseStore, nested, channelWorkers>>

\* await onReload() in worker w: the call and its settling
WatchReload(w) ==
  /\ TickOp(watch[w]) = "reload"
  /\ watch' = [watch EXCEPT ![w] = Advance(@)]
  /\ scopeReloads' = Append(scopeReloads, [watcher |-> w, set |-> scopesSet])
  /\ UNCHANGED <<reloadVars, routerVars, faults, responses, auditVars,
                 scopesSet, normVars, killVars, failedAt, prodVars, cfgVars, waitVars, addFailed, cronVars, chatRuns, responseStore, nested, channelWorkers>>

NextScopes ==
  \/ \E scope \in ReloadScopes : SetReloadFlagScope(scope)
  \/ \E w \in Watchers : WatchPoll(w)
  \/ \E w \in Watchers : WatchGet(w)
  \/ \E w \in Watchers : WatchDel(w)
  \/ \E w \in Watchers : WatchReload(w)

SpecScopes == InitUnit /\ [][NextScopes]_vars

(***************************************************************************)
(* The normalizer as a pure function.  Its inputs are the raw inputs the   *)
(* dispatch route lets through (any source and type string, any map as     *)
(* payload, an optional priority) and the inputs the cron worker builds    *)
(* from the tasks POST /api/schedule stores.                               *)
(***************************************************************************)
NormSources == {"api", "slack", "scheduler", "mcp"}

NormTypes == {"message.sent", "task.scheduled", "internal",
              "chat.turn_completed", "reaction.added", "constructor"}

NormPriorities == {NoPriority, 0, 7}

NormPayloads ==
  {Payload("hi", "u1", Missing, Missing, Missing),
   Payload(NonString, Missing, Missing, Missing, Missing),
   Payload(Missing, NonString, "send report", "2025-02-05T14:00:00Z", Missing),
   Payload(Missing, Missing, "send report", Missing, "0 9 * * *"),
   Payload(Missing, Missing, "send report", "2025-02-05T14:00:00Z", "0 9 * * *"),
   Payload(Missing, Missing, NonString, Missing, Missing),
   Payload(Missing, Missing, "send report", " ", NonString),
   McpPayload("github", "push"),
   McpPayload("github", NonString)}

Raw(source, type, payload, priority) ==
  [source |-> source, type |-> type, payload |-> payload, priority |-> priority]

\* req.body of POST /api/schedule
ScheduleBodies ==
  [intent : {"send report", "", Missing},
   execute_at : {Missing, "2025-02-05T14:00:00Z", " "},
   cron : {Missing, "0 9 * * *", NonString}]

\* POST /api/schedule answers 201 and stores the task
scheduleAccepts(body) ==
  /\ IsString(body.intent) /\ body.intent # ""
  /\ TrimmedOrMissing(body.execute_at) # Missing
       \/ TrimmedOrMissing(body.cron) # Missing

\* the task POST /api/schedule hands to scheduler.schedule
scheduledTask(body) ==
  [intent |-> body.intent,
   execute_at |-> TrimmedOrMissing(body.execute_at),
   cron |-> TrimmedOrMissing(body.cron)]

StoredTasks == {scheduledTask(body) : body \in {b \in ScheduleBodies : scheduleAccepts(b)}}

\* the raw input runTask(t) of the cron worker dispatches
runTask(t) ==
  Raw("scheduler", "task.scheduled",
      Payload(Missing, Missing, t.intent, t.execute_at, t.cron), NoPriority)

CronInputs == {runTask(t) : t \in StoredTasks}

NormalizeInputs ==
  {Raw(source, type, payload, priority) :
     source \in NormSources, type \in NormTypes,
     payload \in NormPayloads, priority \in NormPriorities}
  \cup CronInputs

InitNormalize ==
  /\ InitRouter /\ queueAdapter = FALSE /\ InitReload
  /\ nin \in NormalizeInputs
  /\ nout = <<>>

\* one call createNormalizedEvent(raw, { correlationId })
Normalize(correlationId) ==
  /\ nout = <<>>
  /\ nout' = <<createNormalizedEvent(nin, correlationId, <<"uuid", 0>>, now)>>
  /\ UNCHANGED <<nin, routerVars, reloadVars, faults, responses, auditVars,
                 scopeVars, killVars, failedAt, prodVars, cfgVars, waitVars, addFailed, cronVars, chatRuns, responseStore, nested, channelWorkers>>

NextNormalize == \E correlationId \in {NoCorrelation, "corr-1"} : Normalize(correlationId)

SpecNormalize == InitNormalize /\ [][NextNormalize]_vars

(***************************************************************************)
(* The kill switch as a value of the coordination store.  killSwitch is    *)
(* the stored value; every process that called initKillSwitch holds the    *)
(* value its own getKillSwitchEnabled() returns and refreshes it from the  *)
(* store.                                                                  *)
(***************************************************************************)
\* POST /api/safety/kill-switch: setKillSwitchEnabled(Boolean(enabled))
KillSet(enabled) ==
  /\ Len(ksSets) < MaxKillToggles
  /\ killSwitch' = requestedValue(enabled)
  /\ ksSets' = Append(ksSets, enabled)
  /\ UNCHANGED <<handlers, queue, processing, queueAdapter, seenEventKeys,
                 dedupTimers, now, killToggles, nextId, regs, calls, enqueued,
                 batches, broker, workerJob, reloadVars, faults, responses,
                 auditVars, scopeVars, normVars, ksView, failedAt, prodVars, cfgVars, waitVars, addFailed, cronVars, chatRuns, responseStore, nested, channelWorkers>>

\* process p takes over the stored value
KillSync(p) ==
  /\ ksView[p] # killSwitch
  /\ ksView' = [ksView EXCEPT ![p] = killSwitch]
  /\ UNCHANGED <<routerVars, reloadVars, faults, responses, auditVars,
                 scopeVars, normVars, ksSets, failedAt, prodVars, cfgVars, waitVars, addFailed, cronVars, chatRuns, responseStore, nested, channelWorkers>>

NextKill ==
  \/ \E enabled \in KillBodies : KillSet(enabled)
  \/ \E p \in KillProcesses : KillSync(p)

SpecKill == InitUnit /\ [][NextKill]_vars

\* every process keeps refreshing its value
FairKill == \A p \in KillProcesses : WF_vars(KillSync(p))

SpecKillFair == SpecKill /\ FairKill

(***************************************************************************)
(* enqueueRaw / createQueueDispatcher: the producer path of the channel    *)
(* workers, which hands events to the broker without an EventRouter.       *)
(***************************************************************************)
RawSlackMessage == Raw("slack", "message.sent",
                       Payload("hi", "U1", Missing, Missing, Missing), NoPriority)

RawSlackOther == Raw("slack", "message.sent",
                     Payload("bye", "U1", Missing, Missing, Missing), NoPriority)

ProducerInputs == {RawSlackMessage, RawSlackOther}

\* enqueueRaw(queue, raw, options); withSet: options.dedupSet is given, as
\* createQueueDispatcher(queue, { dedupSet }) passes it on
EnqueueRaw(raw, withSet) ==
  /\ Len(produced) < MaxProduced
  /\ LET e == createNormalizedEvent(raw, NoCorrelation,
                                    <<"uuid-producer", Len(produced) + 1>>, now)
         key == eventKey(e)
         duplicate == withSet /\ key \in dedupSet
     IN /\ dedupSet' = IF withSet THEN dedupSet \cup {key} ELSE dedupSet
        /\ broker' = IF duplicate THEN broker ELSE Append(broker, e)
        /\ produced' = Append(produced,
                              [raw |-> raw, ev |-> e, at |-> now,
                               withSet |-> withSet, accepted |-> ~duplicate])
  /\ UNCHANGED <<handlers, queue, processing, queueAdapter, seenEventKeys,
                 dedupTimers, now, killSwitch, killToggles, nextId, regs,
                 calls, enqueued, batches, workerJob, reloadVars, faults,
                 responses, auditVars, scopeVars, normVars, killVars, failedAt,
                 cfgVars, waitVars, addFailed, cronVars, chatRuns, responseStore, nested, channelWorkers>>

\* dispatch with a queue adapter whose add rejects: the key was added and
\* its timer set at lines 98-99, then the await at line 102 throws
DispatchAddRejects(raw, correlationId) ==
  /\ Len(calls) < MaxCalls
  /\ hasQueueAdapter
  /\ LET fresh == <<"uuid", nextId + 1>>
         e == createNormalizedEvent(raw, correlationId, fresh, now)
         key == eventKey(e)
     IN /\ ~IsDuplicate(key)
        /\ nextId' = IF correlationId = NoCorrelation THEN nextId + 1 ELSE nextId
        /\ seenEventKeys' = seenEventKeys \cup {key}
        /\ dedupTimers' = dedupTimers \cup {[key |-> key, due |-> now + DEDUP_TTL_MS]}
        /\ calls' = Append(calls, Call(raw, correlationId, e, FALSE, TRUE))
        /\ addFailed' = Append(addFailed, [path |-> "dispatch", n |-> Len(calls) + 1])
  /\ UNCHANGED <<handlers, queue, processing, queueAdapter, now, killSwitch,
                 killToggles, regs, enqueued, batches, broker, workerJob,
                 reloadVars, faults, responses, auditVars, scopeVars, normVars,
                 killVars, failedAt, prodVars, cfgVars, waitVars, cronVars, chatRuns, responseStore, nested, channelWorkers>>

\* enqueueRaw whose queue.add rejects: the key was added at line 82, then
\* the await at line 83 throws
EnqueueRawAddRejects(raw, withSet) ==
  /\ Len(produced) < MaxProduced
  /\ LET e == createNormalizedEvent(raw, NoCorrelation,
                                    <<"uuid-producer", Len(produced) + 1>>, now)
         key == eventKey(e)
     IN /\ ~(withSet /\ key \in dedupSet)
        /\ dedupSet' = IF withSet THEN dedupSet \cup {key} ELSE dedupSet
        /\ produced' = Append(produced,
                              [raw |-> raw, ev |-> e, at |-> now,
                               withSet |-> withSet, accepted |-> FALSE])
        /\ addFailed' = Append(addFailed, [path |-> "enqueueRaw", n |-> Len(produced) + 1])
  /\ UNCHANGED <<routerVars, reloadVars, faults, responses, auditVars, scopeVars,
                 normVars, killVars, failedAt, cfgVars, waitVars, cronVars, chatRuns, responseStore, nested, channelWorkers>>

NextBrokerFault ==
  \/ Tick
  \/ \E t \in dedupTimers : DedupExpire(t)
  \/ Dispatch(RawMessage, NoCorrelation)
  \/ DispatchAddRejects(RawMessage, NoCorrelation)
  \/ \E withSet \in BOOLEAN : EnqueueRaw(RawSlackMessage, withSet)
  \/ \E withSet \in BOOLEAN : EnqueueRawAddRejects(RawSlackMessage, withSet)

SpecBrokerFault == InitDist /\ [][NextBrokerFault]_vars

NextProducers ==
  \/ TickUntil(MaxProducerTime)
  \/ \E t \in dedupTimers : DedupExpire(t)
  \/ Dispatch(RawMessage, NoCorrelation)
  \/ \E raw \in ProducerInputs, withSet \in BOOLEAN : EnqueueRaw(raw, withSet)

SpecProducers == InitDist /\ [][NextProducers]_vars

(***************************************************************************)
(* Configuration mutations of the API: schedule add, schedule cancel and   *)
(* channel update.  Each request is the sequence of its awaits: the write  *)
(* to the store, then setReloadFlag for the scopes it affects.  found is   *)
(* the result of the store: a cancel of an unknown id finds nothing.       *)
(***************************************************************************)
\* mutation: the flag is set before the store is written
MutationProgramFlagFirst == <<"flag", "persist">>

\* store.add / store.remove / updateChannelsConfig, then setReloadFlag
MutationProgram == <<"persist", "flag">>

\* the requests the model makes: kind, affected scopes, result of the store
MutationRequests ==
  {[kind |-> "add", scopes |-> {"schedule"}, found |-> TRUE],
   [kind |-> "cancel", scopes |-> {"schedule"}, found |-> TRUE],
   [kind |-> "cancel", scopes |-> {"schedule"}, found |-> FALSE],
   [kind |-> "channels", scopes |-> {"slack"}, found |-> TRUE],
   [kind |-> "channels", scopes |-> {"slack", "whatsapp"}, found |-> TRUE]}

\* await store.add({ ...task, id }) / await store.remove(id)
storeWrite(m) == [m EXCEPT !.persisted = TRUE]

\* updateChannelsConfig(patch): the call returns with the patch persisted
updateChannelsConfig(m) == [m EXCEPT !.persisted = TRUE]

persistStep(m) == IF m.kind = "channels" THEN updateChannelsConfig(m) ELSE storeWrite(m)

\* the request arrives
MutationStart(req) ==
  /\ Len(cfgLog) < MaxMutations
  /\ cfgLog' = Append(cfgLog, [kind |-> req.kind, scopes |-> req.scopes,
                               found |-> req.found, pc |-> 1,
                               persisted |-> FALSE, flagged |-> FALSE])
  /\ UNCHANGED <<routerVars, reloadVars, faults, responses, auditVars,
                 scopeVars, normVars, killVars, failedAt, prodVars, cfgReads, waitVars, addFailed, cronVars, chatRuns, responseStore, nested, channelWorkers>>

\* the request goes past its next await
MutationStep(i) ==
  /\ i \in 1..Len(cfgLog)
  /\ cfgLog[i].pc \in 1..Len(MutationProgram)
  /\ LET m == cfgLog[i]
         op == MutationProgram[m.pc]
     IN IF ~m.found
        THEN \* if (!ok) return: 404, no flag
             /\ cfgLog' = [cfgLog EXCEPT ![i].pc = Len(MutationProgram) + 1]
             /\ UNCHANGED <<flag, setCount, epochs, unserved, scopesSet>>
        ELSE IF op = "persist"
        THEN /\ cfgLog' = [cfgLog EXCEPT ![i] = [persistStep(m) EXCEPT !.pc = @ + 1]]
             /\ UNCHANGED <<flag, setCount, epochs, unserved, scopesSet>>
        ELSE /\ cfgLog' = [cfgLog EXCEPT ![i].pc = @ + 1, ![i].flagged = TRUE]
             /\ flag' = redisSet(flag)
             /\ setCount' = setCount + 1
             /\ epochs' = IF flag THEN epochs ELSE epochs + 1
             /\ unserved' = TRUE
             /\ scopesSet' = scopesSet \cup m.scopes
  /\ UNCHANGED <<ticks, reloadStarts, reloadsRunning, overlapped, routerVars,
                 faults, responses, auditVars, watch, scopeReloads, normVars,
                 killVars, failedAt, prodVars, cfgReads, waitVars, addFailed, cronVars, chatRuns, responseStore, nested, channelWorkers>>

NextConfig ==
  \/ \E req \in MutationRequests : MutationStart(req)
  \/ \E i \in 1..Len(cfgLog) : MutationStep(i)
  \/ \E s \in 1..MaxTicks : PollTick(s)
  \/ \E s \in 1..MaxTicks : TickGet(s)
  \/ \E s \in 1..MaxTicks : TickDel(s)
  \/ \E s \in 1..MaxTicks : ReloadStart(s)
  \/ \E s \in 1..MaxTicks : ReloadSettle(s)

SpecConfig == InitUnit /\ [][NextConfig]_vars

(***************************************************************************)
(* The web client: getSocket and waitForChatResult.                        *)
(***************************************************************************)
WaitEventIds == {"e1", "e2"}
WaitMessages == {"m1", "m2"}
TimedOut == "Chat response timed out"
SocketDisconnected == "Socket disconnected"

\* if (socketInstance?.connected) return socketInstance; otherwise the old
\* socket is closed and io() makes a new one, which is not connected yet
getSocket == IF socketInstance # 0 /\ connected THEN socketInstance ELSE socketInstance + 1

\* mutation: the chat-result listener stays on the socket
cleanupKeepsListener(w) == [w EXCEPT !.timer = FALSE, !.onDisconnect = FALSE]

\* clearTimeout(timeout); s.off("chat-result", handler); s.off("disconnect", onDisconnect)
cleanup(w) == [w EXCEPT !.timer = FALSE, !.handler = FALSE, !.onDisconnect = FALSE]

\* resolve(v) / reject(v): only the first call settles the promise
settlePromise(w, state, v) ==
  [w EXCEPT !.state = IF w.state = "pending" THEN state ELSE @,
            !.value = IF w.state = "pending" THEN v ELSE @,
            !.settles = @ + 1]

\* waitForChatResult(eventId): the timer is armed and both listeners are put
\* on the socket getSocket returns
WaitForChatResult(eventId) ==
  /\ Len(waits) < MaxWaits
  /\ socketInstance' = getSocket
  /\ connected' = (socketInstance' = socketInstance /\ connected)
  /\ waits' = Append(waits, [eventId |-> eventId, s |-> getSocket,
                             since |-> Len(socketEvents), state |-> "pending",
                             value |-> Missing, settles |-> 0, timer |-> TRUE,
                             handler |-> TRUE, onDisconnect |-> TRUE])
  /\ UNCHANGED <<routerVars, reloadVars, faults, responses, auditVars, scopeVars,
                 normVars, killVars, failedAt, prodVars, cfgVars, addFailed, cronVars, chatRuns, responseStore, nested, channelWorkers, socketEvents>>

\* the socket made by io() connects
SocketConnect ==
  /\ socketInstance # 0
  /\ ~connected
  /\ connected' = TRUE
  /\ UNCHANGED <<routerVars, reloadVars, faults, responses, auditVars, scopeVars,
                 normVars, killVars, failedAt, prodVars, cfgVars, addFailed, cronVars, chatRuns, responseStore, nested, channelWorkers, socketInstance,
                 waits, socketEvents>>

\* the socket emits "chat-result": every handler on it runs
SocketChatResult(eventId, message) ==
  /\ connected
  /\ Len(socketEvents) < MaxSocketEvents
  /\ socketEvents' = Append(socketEvents, [s |-> socketInstance, kind |-> "chat-result",
                                           eventId |-> eventId, message |-> message])
  /\ waits' = [i \in 1..Len(waits) |->
                 IF waits[i].s = socketInstance /\ waits[i].handler
                    /\ eventId = waits[i].eventId
                 THEN settlePromise(cleanup(waits[i]), "resolved", message)
                 ELSE waits[i]]
  /\ UNCHANGED <<routerVars, reloadVars, faults, responses, auditVars, scopeVars,
                 normVars, killVars, failedAt, prodVars, cfgVars, addFailed, cronVars, chatRuns, responseStore, nested, channelWorkers, socketInstance,
                 connected>>

\* the socket emits "disconnect": every onDisconnect on it runs
SocketDisconnect ==
  /\ connected
  /\ Len(socketEvents) < MaxSocketEvents
  /\ connected' = FALSE
  /\ socketEvents' = Append(socketEvents, [s |-> socketInstance, kind |-> "disconnect",
                                           eventId |-> Missing, message |-> Missing])
  /\ waits' = [i \in 1..Len(waits) |->
                 IF waits[i].s = socketInstance /\ waits[i].onDisconnect
                 THEN settlePromise(cleanup(waits[i]), "rejected", SocketDisconnected)
                 ELSE waits[i]]
  /\ UNCHANGED <<routerVars, reloadVars, faults, responses, auditVars, scopeVars,
                 normVars, killVars, failedAt, prodVars, cfgVars, addFailed, cronVars, chatRuns, responseStore, nested, channelWorkers, socketInstance>>

\* the setTimeout callback of a call runs
WaitTimeout(i) ==
  /\ i \in 1..Len(waits)
  /\ waits[i].timer
  /\ waits' = [waits EXCEPT ![i] = settlePromise(cleanup(@), "rejected", TimedOut)]
  /\ UNCHANGED <<routerVars, reloadVars, faults, responses, auditVars, scopeVars,
                 normVars, killVars, failedAt, prodVars, cfgVars, addFailed, cronVars, chatRuns, responseStore, nested, channelWorkers, socketInstance,
                 connected, socketEvents>>

NextWait ==
  \/ \E e \in WaitEventIds : WaitForChatResult(e)
  \/ SocketConnect
  \/ \E e \in WaitEventIds, m \in WaitMessages : SocketChatResult(e, m)
  \/ SocketDisconnect
  \/ \E i \in 1..Len(waits) : WaitTimeout(i)

SpecWait == InitUnit /\ [][NextWait]_vars

(***************************************************************************)
(* The cron worker: runCronScheduler.  The store holds a one-shot task     *)
(* ("once", with an execute_at) and a recurring task ("daily", with a cron *)
(* expression).  load is two steps, the await of store.getAll and the      *)
(* synchronous loop over scheduleOne; runTask of a one-shot task is two    *)
(* steps, the await of store.remove and the await of dispatch.             *)
(***************************************************************************)
CronTaskIds == {"once", "daily"}

\* line 53: typeof t.cron === "string" && t.cron.trim() !== ""
isRecurring(t) == t = "daily"

\* line 94: [...oneShot, ...recurring]
CronOrder == <<"once", "daily">>

CronState == [jobs |-> cjobs, map |-> jobsMap, runs |-> cruns]

\* runTask(t) is called: a recurring task goes straight to dispatch
startRun(t) == [task |-> t, pc |-> IF isRecurring(t) THEN "dispatch" ELSE "remove"]

\* schedule.scheduleJob(t.id, ...); if (job) jobs.set(t.id, job)
setJob(st, t) ==
  [st EXCEPT !.jobs = Append(@, [task |-> t, state |-> "pending"]),
             !.map = [@ EXCEPT ![t] = Len(st.jobs) + 1]]

\* scheduleOne(t); due: at.getTime() <= Date.now()
scheduleOne(st, t, due) ==
  IF isRecurring(t) THEN setJob(st, t)
  ELSE IF due THEN [st EXCEPT !.runs = Append(@, startRun(t))]
  ELSE setJob(st, t)

RECURSIVE scheduleAll(_, _, _, _)
\* for (const t of [...oneShot, ...recurring]) scheduleOne(t)
scheduleAll(st, tasks, k, due) ==
  IF k > Len(CronOrder) THEN st
  ELSE scheduleAll(IF CronOrder[k] \in tasks THEN scheduleOne(st, CronOrder[k], due) ELSE st,
                   tasks, k + 1, due)

\* stop(): for (const job of jobs.values()) job.cancel(); jobs.clear()
stopJobs(js, map) ==
  [j \in 1..Len(js) |->
     IF \E t \in CronTaskIds : map[t] = j THEN [js[j] EXCEPT !.state = "cancelled"] ELSE js[j]]

CronFrame ==
  UNCHANGED <<routerVars, reloadVars, faults, responses, auditVars, scopeVars,
              normVars, killVars, failedAt, prodVars, cfgVars, waitVars, addFailed,
              chatRuns, responseStore, nested, channelWorkers>>

\* the API adds a task to the store (ids are fresh: no id is added twice)
StoreAdd(t) ==
  /\ t \notin cstoreLog.added
  /\ cstore' = cstore \cup {t}
  /\ cstoreLog' = [cstoreLog EXCEPT !.added = @ \cup {t}]
  /\ UNCHANGED <<cjobs, jobsMap, cruns, cloads, cdispatched, cronDue>>
  /\ CronFrame

\* the API cancels a task that is in the store
StoreCancel(t) ==
  /\ t \in cstore
  /\ cstore' = cstore \ {t}
  /\ cstoreLog' = [cstoreLog EXCEPT !.cancelled = @ \cup {t}]
  /\ UNCHANGED <<cjobs, jobsMap, cruns, cloads, cdispatched, cronDue>>
  /\ CronFrame

\* the clock reaches the execute_at of the one-shot task
CronBecomesDue ==
  /\ ~cronDue
  /\ cronDue' = TRUE
  /\ UNCHANGED <<cstore, cjobs, jobsMap, cruns, cloads, cdispatched, cstoreLog>>
  /\ CronFrame

\* main: await scheduler.load(), before initReloadWatch
CronLoad ==
  /\ cloads = <<>>
  /\ cloads' = <<[pc |-> "getAll", reload |-> FALSE, tasks |-> {}, alone |-> TRUE]>>
  /\ UNCHANGED <<cstore, cjobs, jobsMap, cruns, cdispatched, cronDue, cstoreLog>>
  /\ CronFrame

\* onReload: scheduler.reload() runs stop() and calls load(); the watcher
\* is started after the first load has returned.  alone records that no
\* other load was in progress when this one started.
CronReload ==
  /\ cloads # <<>>
  /\ cloads[1].pc = "done"
  /\ Len(cloads) < MaxLoads
  /\ cjobs' = stopJobs(cjobs, jobsMap)
  /\ jobsMap' = [t \in CronTaskIds |-> 0]
  /\ cloads' = Append(cloads, [pc |-> "getAll", reload |-> TRUE, tasks |-> {},
                               alone |-> \A l \in 1..Len(cloads) : cloads[l].pc = "done"])
  /\ UNCHANGED <<cstore, cruns, cdispatched, cronDue, cstoreLog>>
  /\ CronFrame

\* const tasks = await store.getAll()
CronGetAll(l) ==
  /\ l \in 1..Len(cloads)
  /\ cloads[l].pc = "getAll"
  /\ cloads' = [cloads EXCEPT ![l].pc = "schedule", ![l].tasks = cstore]
  /\ UNCHANGED <<cstore, cjobs, jobsMap, cruns, cdispatched, cronDue, cstoreLog>>
  /\ CronFrame

\* the rest of load(): the loop over scheduleOne
CronSchedule(l) ==
  /\ l \in 1..Len(cloads)
  /\ cloads[l].pc = "schedule"
  /\ Len(cruns) < MaxCronRuns
  /\ LET st == scheduleAll(CronState, cloads[l].tasks, 1, cronDue)
     IN /\ cjobs' = st.jobs
        /\ jobsMap' = st.map
        /\ cruns' = st.runs
  /\ cloads' = [cloads EXCEPT ![l].pc = "done"]
  /\ UNCHANGED <<cstore, cdispatched, cronDue, cstoreLog>>
  /\ CronFrame

\* the callback of a pending job runs: for a one-shot job at execute_at
\* (jobs.delete(t.id); void runTask(t)), for a recurring job at any of its
\* times (void runTask(t))
CronTimerFires(j) ==
  /\ j \in 1..Len(cjobs)
  /\ cjobs[j].state = "pending"
  /\ Len(cruns) < MaxCronRuns
  /\ LET t == cjobs[j].task
     IN /\ isRecurring(t) \/ cronDue
        /\ cjobs' = IF isRecurring(t) THEN cjobs ELSE [cjobs EXCEPT ![j].state = "fired"]
        /\ jobsMap' = IF isRecurring(t) THEN jobsMap ELSE [jobsMap EXCEPT ![t] = 0]
        /\ cruns' = Append(cruns, startRun(t))
  /\ UNCHANGED <<cstore, cloads, cdispatched, cronDue, cstoreLog>>
  /\ CronFrame

\* runTask: await store.remove(t.id)
RunTaskRemove(r) ==
  /\ r \in 1..Len(cruns)
  /\ cruns[r].pc = "remove"
  /\ cstore' = cstore \ {cruns[r].task}
  /\ cruns' = [cruns EXCEPT ![r].pc = "dispatch"]
  /\ UNCHANGED <<cjobs, jobsMap, cloads, cdispatched, cronDue, cstoreLog>>
  /\ CronFrame

\* runTask: await dispatch({source: "scheduler", type: "task.scheduled", ...});
\* ok: POST /api/internal/dispatch answered 200
RunTaskDispatch(r, ok) ==
  /\ r \in 1..Len(cruns)
  /\ cruns[r].pc = "dispatch"
  /\ cdispatched' = Append(cdispatched, [task |-> cruns[r].task, ok |-> ok])
  /\ cruns' = [cruns EXCEPT ![r].pc = IF ok THEN "done" ELSE "failed"]
  /\ UNCHANGED <<cstore, cjobs, jobsMap, cloads, cronDue, cstoreLog>>
  /\ CronFrame

NextCron ==
  \/ \E t \in CronTaskIds : StoreAdd(t)
  \/ \E t \in CronTaskIds : StoreCancel(t)
  \/ CronBecomesDue
  \/ CronLoad
  \/ CronReload
  \/ \E l \in 1..Len(cloads) : CronGetAll(l)
  \/ \E l \in 1..Len(cloads) : CronSchedule(l)
  \/ \E j \in 1..Len(cjobs) : CronTimerFires(j)
  \/ \E r \in 1..Len(cruns) : RunTaskRemove(r)
  \/ \E r \in 1..Len(cruns), ok \in BOOLEAN : RunTaskDispatch(r, ok)

SpecCron == InitUnit /\ [][NextCron]_vars

(***************************************************************************)
(* The chat handler of registerEventHandlers, await by await.  Each await  *)
(* either returns or throws.  A run records the chat.turn_completed        *)
(* dispatches that returned and the deliverApiResult calls it made.        *)
(***************************************************************************)
\* if (deliverApiResult && event.source === "api")
delivers(run) == run.source = "api"

\* the step after a step that returned
ChatAfter(run) ==
  CASE run.pc = "memory" -> "prepare"
    [] run.pc = "prepare" -> "runChat"
    [] run.pc = "runChat" -> "addToMemory"
    [] run.pc = "addToMemory" -> "turnCompleted"
    [] run.pc = "turnCompleted" -> IF delivers(run) THEN "deliver" ELSE "closeMcp"
    [] run.pc = "deliver" -> "closeMcp"
    [] run.pc = "closeMcp" -> IF run.thrown THEN "catchMemory" ELSE "resolved"
    [] run.pc = "catchMemory" -> "catchTurnCompleted"
    [] run.pc = "catchTurnCompleted" -> IF delivers(run) THEN "catchDeliver" ELSE "resolved"
    [] run.pc = "catchDeliver" -> "resolved"

\* where control goes when the step throws: out of the handler (line 67 and
\* the catch block), to the catch block (lines 74-90 and the finally), or
\* to the finally (the inner try block)
ChatOnThrow(run) ==
  CASE run.pc = "memory" -> "rejected"
    [] run.pc \in {"prepare", "closeMcp"} -> "catchMemory"
    [] run.pc \in {"runChat", "addToMemory", "turnCompleted", "deliver"} -> "closeMcp"
    [] run.pc \in {"catchMemory", "catchTurnCompleted", "catchDeliver"} -> "rejected"

ChatSources == {"api", "slack"}

\* the handler is invoked on a message event
ChatRunStart(source) ==
  /\ Len(chatRuns) < MaxChatRuns
  /\ chatRuns' = Append(chatRuns, [source |-> source, pc |-> "memory", thrown |-> FALSE,
                                   turns |-> 0, deliveries |-> 0])
  /\ UNCHANGED <<routerVars, reloadVars, faults, responses, auditVars, scopeVars,
                 normVars, killVars, failedAt, prodVars, cfgVars, waitVars, addFailed,
                 cronVars, responseStore, nested, channelWorkers>>

\* the await the run is at returns (ok) or throws
ChatStep(i, ok) ==
  /\ i \in 1..Len(chatRuns)
  /\ chatRuns[i].pc \notin {"resolved", "rejected"}
  /\ LET run == chatRuns[i]
     IN chatRuns' = [chatRuns EXCEPT ![i] =
          [run EXCEPT
             !.pc = IF ok THEN ChatAfter(run) ELSE ChatOnThrow(run),
             !.thrown = IF run.pc = "closeMcp" THEN FALSE
                        ELSE IF ok THEN run.thrown ELSE TRUE,
             !.turns = IF ok /\ run.pc \in {"turnCompleted", "catchTurnCompleted"}
                       THEN @ + 1 ELSE @,
             !.deliveries = IF run.pc \in {"deliver", "catchDeliver"} THEN @ + 1 ELSE @]]
  /\ UNCHANGED <<routerVars, reloadVars, faults, responses, auditVars, scopeVars,
                 normVars, killVars, failedAt, prodVars, cfgVars, waitVars, addFailed,
                 cronVars, responseStore, nested, channelWorkers>>

NextChat ==
  \/ \E source \in ChatSources : ChatRunStart(source)
  \/ \E i \in 1..Len(chatRuns), ok \in BOOLEAN : ChatStep(i, ok)

SpecChat == InitUnit /\ [][NextChat]_vars

(***************************************************************************)
(* A handler that dispatches: the chat handler awaits                      *)
(* eventRouter.dispatch(chat.turn_completed) while it is running.  The     *)
(* handler goes on when that dispatch has returned.  The router has no     *)
(* queue adapter, in the process that uses the local loop and in the       *)
(* event-queue worker, whose job callback calls runHandlersForEvent.       *)
(***************************************************************************)
\* the handler at index i of batch b is awaiting a dispatch it made
AwaitsDispatch(b, i) ==
  \E n \in 1..Len(nested) :
    nested[n].batch = b /\ nested[n].index = i /\ ~calls[nested[n].call].returned

\* await eventRouter.dispatch({source: "api", type: "chat.turn_completed", ...})
\* in the handler at index i of batch b
NestedDispatch(b, i) ==
  /\ b \in 1..Len(batches)
  /\ ~batches[b].done
  /\ i \in batches[b].active
  /\ batches[b].ev.type = "message.sent"
  /\ \A n \in 1..Len(nested) : ~(nested[n].batch = b /\ nested[n].index = i)
  /\ dispatch(TurnCompleted(batches[b].ev), NoCorrelation)
  /\ nested' = Append(nested, [call |-> Len(calls) + 1, batch |-> b, index |-> i])
  /\ UNCHANGED responses

\* a handler settles; one that awaits a dispatch does so after it returned
HandlerReturns(b, i, rejected) ==
  /\ ~AwaitsDispatch(b, i)
  /\ HandlerSettle(b, i, rejected)

\* the job callback of the event-queue worker: one job at a time
WorkerJob(e) ==
  /\ \A b \in 1..Len(batches) : batches[b].owner = 0 => batches[b].done
  /\ RunHandlers(e)

NextNested ==
  \/ Dispatch(RawMessage, NoCorrelation)
  \/ WorkerJob(createNormalizedEvent(RawMessage, "job-1", <<"uuid", 0>>, 0))
  \/ \E b \in 1..Len(batches) : \E i \in batches[b].active : NestedDispatch(b, i)
  \/ \E b \in 1..Len(batches), rejected \in BOOLEAN :
       \E i \in batches[b].active : HandlerReturns(b, i, rejected)
  \/ Tick
  \/ \E t \in dedupTimers : DedupExpire(t)

SpecNested == InitLocal /\ [][NextNested]_vars

NextReload ==
  \/ SetReloadFlag
  \/ \E s \in 1..MaxTicks : PollTick(s)
  \/ \E s \in 1..MaxTicks : TickGet(s)
  \/ \E s \in 1..MaxTicks : TickDel(s)
  \/ \E s \in 1..MaxTicks : TickStoreError(s)
  \/ \E s \in 1..MaxTicks : ReloadStart(s)
  \/ \E s \in 1..MaxTicks : ReloadSettle(s)

SpecReload == InitUnit /\ [][NextReload]_vars

\* The interval timer keeps firing, Redis answers a command again and again
\* without an error, and a reload callback settles.
FairReload ==
  /\ WF_vars(\E s \in 1..MaxTicks : PollTick(s))
  /\ \A s \in 1..MaxTicks :
       /\ SF_vars(TickGet(s))
       /\ SF_vars(TickDel(s))
       /\ WF_vars(ReloadStart(s))
       /\ WF_vars(ReloadSettle(s))

SpecReloadFair == SpecReload /\ FairReload

(***************************************************************************)
(* Specifications of the router.                                           *)
(***************************************************************************)
NextLocal ==
  \/ \E enabled \in BOOLEAN : SetKillSwitch(enabled)
  \/ Tick
  \/ \E t \in dedupTimers : DedupExpire(t)
  \/ \E in \in DispatchInputs : Dispatch(in[1], in[2])
  \/ \E b \in 1..Len(batches), rejected \in BOOLEAN :
       \E i \in batches[b].active : HandlerSettle(b, i, rejected)

NextDist ==
  \/ \E enabled \in BOOLEAN : SetKillSwitch(enabled)
  \/ Tick
  \/ \E t \in dedupTimers : DedupExpire(t)
  \/ \E in \in DispatchInputs : Dispatch(in[1], in[2])
  \/ \E b \in 1..Len(batches), rejected \in BOOLEAN :
       \E i \in batches[b].active : HandlerSettle(b, i, rejected)
  \/ \E j \in 1..Len(broker) : WorkerPull(j)

\* the events handed to runHandlersForEvent in SpecRouter
RunInputs == { <<RawMessage, NoCorrelation>>, <<RawReaction, NoCorrelation>> }

NextRouter ==
  \/ Register(HandlerIds[(regs % Len(HandlerIds)) + 1])
  \/ \E i \in 1..Len(handlers) : Unregister(handlers[i])
  \/ \E enabled \in BOOLEAN : SetKillSwitch(enabled)
  \/ \E in \in RunInputs :
       RunHandlers(createNormalizedEvent(in[1], in[2], <<"uuid", 0>>, now))
  \/ \E b \in 1..Len(batches), rejected \in BOOLEAN :
       \E i \in batches[b].active : HandlerSettle(b, i, rejected)

\* the API process: its routes fill the broker
NextApi ==
  \/ \E text \in ChatTexts : PostChat(text)
  \/ \E body \in ApiBodies, authorized \in BOOLEAN :
       PostInternalDispatch(body, authorized)
  \/ \E enabled \in BOOLEAN : SetKillSwitch(enabled)
  \/ Tick
  \/ \E t \in dedupTimers : DedupExpire(t)

SpecApi == InitDist /\ [][NextApi]_vars

\* the API process, the event-queue worker with its handlers, and the
\* result route
NextAudit ==
  \/ \E text \in ChatTexts : PostChat(text)
  \/ \E body \in ApiBodies, authorized \in BOOLEAN :
       PostInternalDispatch(body, authorized)
  \/ \E j \in 1..Len(broker), ok \in BOOLEAN : ChatHandler(j, ok)
  \/ \E j \in 1..Len(broker), ok \in BOOLEAN : TaskHandler(j, ok)
  \/ \E j \in 1..Len(broker) : OtherJob(j)
  \/ \E k \in 1..Len(chatResults) : PostChatResult(k)

SpecAudit == InitDist /\ [][NextAudit]_vars

\* The event-queue worker is running and its handlers return: a job of the
\* broker is taken up, and a result the worker posts reaches the API.
FairAudit ==
  /\ WF_vars(\E j \in 1..Len(broker), ok \in BOOLEAN : ChatHandler(j, ok))
  /\ WF_vars(\E k \in 1..Len(chatResults) : PostChatResult(k))

SpecAuditFair == SpecAudit /\ FairAudit

SpecLocal == InitLocal /\ [][NextLocal]_vars

SpecDist == InitDist /\ [][NextDist]_vars

SpecRouter == InitUnit /\ [][NextRouter]_vars

TypeOK ==
  /\ processing \in BOOLEAN
  /\ killSwitch \in BOOLEAN
  /\ flag \in BOOLEAN
  /\ Len(calls) <= MaxCalls
  /\ setCount \in 0..MaxSets

(***************************************************************************)
(* Properties.                                                             *)
(***************************************************************************)
IsPrefix(a, b) == Len(a) <= Len(b) /\ SubSeq(b, 1, Len(a)) = a

BatchIds == 1..Len(batches)
CallIds == 1..Len(calls)
TickIds == 1..MaxTicks

\* two events with one dedup key, created less than the window apart
SameKeyWithinWindow(e1, e2) ==
  /\ eventKey(e1) = eventKey(e2)
  /\ e2.timestamp - e1.timestamp < DEDUP_TTL_MS
  /\ e1.timestamp - e2.timestamp < DEDUP_TTL_MS

\* C1: a dispatch whose dedup key was accepted less than the dedup window
\* earlier adds no queue entry and causes no handler run: no two entries
\* handed to the queue, and no two handler runs, have the same key and lie
\* less than DEDUP_TTL_MS apart, and every handler run is for a queued entry.
C1_DedupCollapses ==
  /\ \A i, j \in 1..Len(enqueued) :
       i < j => ~SameKeyWithinWindow(enqueued[i], enqueued[j])
  /\ \A i, j \in BatchIds :
       i < j => ~SameKeyWithinWindow(batches[i].ev, batches[j].ev)
  /\ \A b \in BatchIds : \E i \in 1..Len(enqueued) : enqueued[i] = batches[b].ev
  /\ \A c \in CallIds :
       (\E d \in 1..(c - 1) : /\ calls[d].accepted
                              /\ SameKeyWithinWindow(calls[d].ev, calls[c].ev))
         => ~calls[c].accepted

\* C1 witness: a second dispatch of a key was collapsed inside the window
\* after the first one had its handlers run.
C1_Witness ==
  \E c, d \in CallIds :
    /\ d < c
    /\ calls[d].accepted
    /\ ~calls[c].accepted
    /\ SameKeyWithinWindow(calls[d].ev, calls[c].ev)
    /\ \E b \in BatchIds : batches[b].ev = calls[d].ev /\ batches[b].invoked # <<>>
    /\ Len(enqueued) = 1

\* C2: a runHandlersForEvent call made while the kill switch reads engaged
\* invokes no handler and returns at once; a call made while it reads
\* disengaged invokes the registered handlers.
C2_KillSwitchGate ==
  \A b \in BatchIds :
    /\ batches[b].kill => batches[b].invoked = <<>> /\ batches[b].done
    /\ (~batches[b].kill /\ batches[b].start # <<>>) =>
         /\ batches[b].invoked # <<>>
         /\ batches[b].done => IsPrefix(batches[b].start, batches[b].invoked)

\* C2 witness: with a handler registered, one call was gated by the engaged
\* switch and a later call, after the switch was disengaged, ran the handlers.
C2_Witness ==
  \E b, d \in BatchIds :
    /\ b < d
    /\ batches[b].kill /\ batches[b].start # <<>> /\ batches[b].invoked = <<>>
    /\ ~batches[d].kill /\ batches[d].done /\ batches[d].invoked # <<>>

\* C3 (as claimed): an event handed to the broker while the kill switch was
\* engaged is not lost: it is still waiting in the broker, or a handler run
\* for it was not cut short by the switch.
C3_QueuedWhileEngagedNotLost ==
  \A c \in CallIds :
    (calls[c].accepted /\ calls[c].kill /\ handlers # <<>>) =>
      \/ \E j \in 1..Len(broker) : broker[j] = calls[c].ev
      \/ \E b \in BatchIds : batches[b].ev = calls[c].ev /\ ~batches[b].kill

\* C4 (as claimed): when the last handler of an event settles, the dispatch
\* call that submitted the event has already returned to its caller.
C4_ReturnsBeforeHandlersFinish ==
  [][\A b \in BatchIds :
       (~batches[b].done /\ batches'[b].done) =>
         \A c \in CallIds :
           (calls[c].accepted /\ calls[c].ev = batches[b].ev) => calls[c].returned]_vars

\* C5 (as claimed): two dispatches of the same raw input less than the dedup
\* window apart, the first of them accepted, return the same id.
C5_DuplicateReturnsOriginalId ==
  \A c, d \in CallIds :
    (/\ d < c
     /\ calls[d].raw = calls[c].raw
     /\ calls[d].accepted
     /\ calls[c].at - calls[d].at < DEDUP_TTL_MS) => calls[c].id = calls[d].id

\* the ticks that have read the flag as set and have not called onReload yet
ReloadsAhead == Cardinality({s \in TickIds : ReloadAhead(ticks[s])})

Quiet == \A s \in TickIds : ticks[s].pc = 0

NoLostSignal ==
  unserved => (flag \/ \E s \in TickIds : ReloadAhead(ticks[s]))

\* a running reload callback was started after its tick cleared the flag
ClearedBeforeReload ==
  \A s \in TickIds : ticks[s].running => ~DelAhead(ticks[s])

C8_TakesHighestPriority ==
  \A b \in BatchIds :
    batches[b].owner # 0 => batches[b].ev.priority >= batches[b].pendingMax

\* C8 witness: events dispatched with priorities 5, 10, 5 were all pending
\* when draining started and the priority-10 event was handled first, then
\* the two priority-5 events.
C8_Witness ==
  /\ Len(calls) = 3
  /\ calls[1].ev.priority = 5 /\ calls[2].ev.priority = 10
  /\ calls[3].ev.priority = 5
  /\ Len(batches) = 3
  /\ batches[1].ev = calls[2].ev /\ batches[1].pendingMax = 5
  /\ batches[1].invoked # <<>>
  /\ batches[2].ev = calls[1].ev /\ batches[2].pendingMax = 5
  /\ batches[3].ev = calls[3].ev

LoopBatchesRunning == {b \in BatchIds : batches[b].owner # 0 /\ ~batches[b].done}

\* C9: in local mode at most one event is being processed at any time, and
\* the processing flag is raised exactly while one is.
C9_SingleFlight ==
  /\ Cardinality(LoopBatchesRunning) <= 1
  /\ processing <=> LoopBatchesRunning # {}

\* C9 witness: a dispatch arrived while the handlers of another event were
\* running, and its event waits in the queue.
C9_Witness ==
  /\ Cardinality(LoopBatchesRunning) = 1
  /\ queue # <<>>
  /\ \E c \in CallIds : calls[c].accepted /\ calls[c].returned /\ calls[c].ev = queue[1]

\* C10: within one runHandlersForEvent call the handlers are invoked in the
\* order of the handler list, one at a time, each entry once, and all of
\* the handlers registered when the call started have been invoked when it
\* ends.
C10_SequentialInOrder ==
  \A b \in BatchIds :
    /\ IsPrefix(batches[b].invoked, batches[b].iter)
    /\ Cardinality(batches[b].active) <= 1
    /\ batches[b].active \subseteq {Len(batches[b].invoked)}
    /\ batches[b].done => batches[b].invoked = batches[b].iter
    /\ (batches[b].done /\ ~batches[b].kill) =>
         IsPrefix(batches[b].start, batches[b].invoked)

\* C10 witness: a call has run two handlers to the end, the second one
\* started after the first settled and is the last.
C10_Witness ==
  \E b \in BatchIds :
    /\ batches[b].done
    /\ batches[b].invoked = <<"h1", "h2">>

\* C11: a handler call that rejected is followed by the call of the next
\* handler of the same event, the runHandlersForEvent call it belongs to
\* does not reject and ends only after every handler was called, and the
\* local loop then goes on: in the step that ends such a call the handlers
\* of the next queued event are started, unless the queue is empty or the
\* kill switch is engaged.
C11_RejectionIsContained ==
  /\ [](\A f \in faults :
          LET b == batches[f[1]]
          IN /\ ~b.failed
             /\ f[2] < Len(b.iter) => Len(b.invoked) > f[2]
             /\ b.done => b.invoked = b.iter)
  /\ [][\A f \in faults' :
          LET k == f[1]
          IN (/\ batches'[k].done
              /\ ~batches[k].done
              /\ batches[k].owner # 0
              /\ queue # <<>>
              /\ ~killSwitch)
             => /\ Len(batches') > Len(batches)
                /\ batches'[Len(batches) + 1].ev = Head(queue)
                /\ queue' = Tail(queue)]_vars

\* C11 witness: the first handler of an event rejected, the second handler
\* of that event was invoked and settled, and the loop has started the
\* handlers of the next queued event.
C11_Witness ==
  \E f \in faults :
    /\ f[2] = 1
    /\ batches[f[1]].done
    /\ batches[f[1]].owner # 0
    /\ Len(batches[f[1]].invoked) = 2
    /\ \E d \in BatchIds : d > f[1] /\ batches[d].owner # 0
                             /\ batches[d].invoked # <<>>

ResponseIds == 1..Len(responses)

\* the request was well-formed and authorized
ValidSubmission(r) ==
  IF r.route = "chat"
  THEN r.body.text # ""
  ELSE r.status # 401 /\ validBody(r.body)

\* the dispatch call c normalized its input, and either recorded its key in
\* the dedup set and handed the event to the queue or collapsed it into an
\* earlier accepted event of the same key
TookPart(c) ==
  /\ calls[c].ev.payload = normalizePayload(calls[c].raw.source, calls[c].raw.type,
                                            calls[c].raw.payload)
  /\ calls[c].accepted =>
       /\ \E i \in 1..Len(enqueued) : enqueued[i] = calls[c].ev
       /\ \E j \in 1..Len(broker) : broker[j] = calls[c].ev
       /\ calls[c].at + DEDUP_TTL_MS > now => eventKey(calls[c].ev) \in seenEventKeys
  /\ ~calls[c].accepted =>
       \E d \in 1..(c - 1) : /\ calls[d].accepted
                              /\ eventKey(calls[d].ev) = eventKey(calls[c].ev)

C15_MalformedNeverEnters ==
  /\ \A r \in ResponseIds :
       (/\ responses[r].route = "dispatch"
        /\ responses[r].status # 401
        /\ \/ responses[r].body.source = Missing
           \/ responses[r].body.type = Missing
           \/ responses[r].body.payloadType # "object")
       => responses[r].status = 400 /\ responses[r].call = 0
  /\ \A i \in 1..Len(enqueued) :
       /\ IsString(enqueued[i].source) /\ enqueued[i].source # ""
       /\ IsString(enqueued[i].type) /\ enqueued[i].type # ""
       /\ enqueued[i].payload.kind \in {"message", "scheduled_task", "internal"}

\* the events of q, as a set
InQueue(q) == {q[i] : i \in 1..Len(q)}

OutcomeIds == 1..Len(outcomes)

\* the audit entries of the given type written for event id
EntriesFor(id, type) ==
  {i \in 1..Len(audit) : audit[i].eventId = id /\ audit[i].type = type}

\* no chat-result request for the event is still on its way to the API
Delivered(id) == \A k \in 1..Len(chatResults) : chatResults[k].eventId # id

\* C14 (as claimed): once an event is handled and its result delivered,
\* the outcome has exactly one audit entry of its kind over all processes:
\* one "decision" entry for the response of a chat message, one
\* "scheduled_task" entry for the execution of a scheduled task.
C14_OneAuditEntryPerOutcome ==
  \A o \in OutcomeIds :
    Delivered(outcomes[o].ev.id) =>
      IF outcomes[o].kind = "chat"
      THEN Cardinality(EntriesFor(outcomes[o].ev.id, "decision")) = 1
      ELSE Cardinality(EntriesFor(outcomes[o].ev.id, "scheduled_task")) = 1

\* the responses that told a submitter the id of an event that was accepted
Submitted ==
  {r \in ResponseIds : responses[r].call # 0 /\ calls[responses[r].call].accepted}

\* C17: the id of a normalized event is the correlation id the caller
\* supplied, when there is one, and it stays the same from then on: the
\* event handed to the queue, the job waiting in the broker, the event
\* given to a handler and the chat result relayed on Socket.IO all carry
\* the id that the submitter of that event received.
C17_IdIsStable ==
  /\ \A c \in CallIds :
       calls[c].correlationId # NoCorrelation => calls[c].ev.id = calls[c].correlationId
  /\ \A r \in Submitted :
       \E i \in 1..Len(enqueued) :
         /\ enqueued[i] = calls[responses[r].call].ev
         /\ enqueued[i].id = responses[r].id
  /\ \A j \in 1..Len(broker) : \E r \in Submitted : responses[r].id = broker[j].id
  /\ \A o \in OutcomeIds :
       \E r \in Submitted :
         /\ responses[r].id = outcomes[o].ev.id
         /\ calls[responses[r].call].ev = outcomes[o].ev
  /\ \A k \in 1..Len(chatResults) :
       \E r \in Submitted : /\ calls[responses[r].call].ev.source = "api"
                             /\ responses[r].id = chatResults[k].eventId
  /\ \A k \in 1..Len(relayed) :
       \E r \in Submitted : /\ calls[responses[r].call].ev.source = "api"
                             /\ responses[r].id = relayed[k]

\* C17 witness: a chat message was submitted with a correlation id, handled
\* by the worker, and its result was relayed under the id the submitter got.
C17_Witness ==
  \E r \in Submitted, o \in OutcomeIds, k \in 1..Len(relayed) :
    /\ responses[r].route = "chat"
    /\ calls[responses[r].call].correlationId = responses[r].id
    /\ outcomes[o].ev.id = responses[r].id
    /\ relayed[k] = responses[r].id

\* C16 (as claimed): a worker's reload callback runs only after a
\* setReloadFlag call for the scope that worker watches.
C16_ScopesIndependent ==
  \A i \in 1..Len(scopeReloads) : scopeReloads[i].watcher \in scopeReloads[i].set

\* exactly one of the two scheduling fields of payload p is present
ExactlyOneSchedulingField(p) == (p.execute_at # Missing) # (p.cron # Missing)

\* C18 (as claimed): every task.scheduled event the cron worker dispatches,
\* and every scheduled_task payload the normalizer returns, has exactly one
\* of execute_at and cron.
C18_ExactlyOneSchedulingField ==
  /\ nin \in CronInputs => ExactlyOneSchedulingField(nin.payload)
  /\ (nout # <<>> /\ nout[1].payload.kind = "scheduled_task")
       => ExactlyOneSchedulingField(nout[1].payload)

\* C19 (as claimed): the priority of a normalized event is the supplied
\* priority when one is present, 0 included; otherwise 10 for message.sent,
\* 8 for internal, 5 for task.scheduled and 5 for every other type.
C19_PriorityByTypeAndSupplied ==
  nout # <<>> =>
    nout[1].priority =
      IF nin.priority # NoPriority THEN nin.priority
      ELSE CASE nin.type = "message.sent" -> 10
             [] nin.type = "internal" -> 8
             [] nin.type = "task.scheduled" -> 5
             [] OTHER -> 5

\* what the claims of C20 say about the two recognized types
RecognizedTypesDefaulted ==
  /\ nin.type = "message.sent" =>
       /\ nout[1].payload.kind = "message"
       /\ nout[1].payload.text =
            IF IsString(nin.payload.text) THEN nin.payload.text ELSE ""
       /\ nout[1].payload.userId =
            IF IsString(nin.payload.userId) THEN nin.payload.userId ELSE "default"
  /\ nin.type = "task.scheduled" =>
       /\ nout[1].payload.kind = "scheduled_task"
       /\ nout[1].payload.intent =
            IF IsString(nin.payload.intent) THEN nin.payload.intent ELSE ""

WrapsRawPayload ==
  nout[1].payload.kind = "internal" /\ nout[1].payload.data = nin.payload

IsIntegrationCallback ==
  /\ nin.source = "mcp"
  /\ IsString(nin.payload.integrationId)
  /\ IsString(nin.payload.originalType)

\* C20 (as claimed): normalization returns an event for every raw input
\* with a map payload; a type other than message.sent and task.scheduled
\* gives payload kind internal wrapping the raw payload; wrong-typed fields
\* are replaced by defaults.
C20_UnrecognizedTypeIsInternal ==
  /\ nout = <<>> => ENABLED Normalize(NoCorrelation)
  /\ nout # <<>> =>
       /\ RecognizedTypesDefaulted
       /\ nin.type \notin {"message.sent", "task.scheduled"} => WrapsRawPayload

\* C20 (amended): as above, except that an unrecognized type from source
\* mcp whose payload has string integrationId and originalType gives payload
\* kind integration_event carrying those two fields.
C20_TotalWithDefaults ==
  /\ nout = <<>> => ENABLED Normalize(NoCorrelation)
  /\ nout # <<>> =>
       /\ nout[1].source = nin.source /\ nout[1].type = nin.type
       /\ RecognizedTypesDefaulted
       /\ nin.type \notin {"message.sent", "task.scheduled"} =>
            IF IsIntegrationCallback /\ nin.type # "chat.turn_completed"
            THEN /\ nout[1].payload.kind = "integration_event"
                 /\ nout[1].payload.integrationId = nin.payload.integrationId
                 /\ nout[1].payload.originalType = nin.payload.originalType
            ELSE WrapsRawPayload

\* C20 witness: a message.sent input whose text is not a string and whose
\* userId is missing was normalized to text "" and userId "default".
C20_Witness ==
  /\ nout # <<>>
  /\ nin.type = "message.sent"
  /\ nin.payload.text = NonString /\ nin.payload.userId = Missing
  /\ nout[1].payload.text = "" /\ nout[1].payload.userId = "default"

\* C21: with a queue adapter configured, a dispatch call hands an accepted
\* event to the adapter and changes neither the in-memory queue nor the
\* processing flag, and it starts no handler batch: every batch is run by
\* the worker, none by a dispatch call.
C21_AdapterReplacesLocalQueue ==
  /\ [](queueAdapter =>
         /\ queue = <<>>
         /\ ~processing
         /\ \A b \in BatchIds : batches[b].owner = 0)
  /\ [][(queueAdapter /\ Len(calls') = Len(calls) + 1) =>
         LET c == calls'[Len(calls')]
         IN /\ queue' = queue
            /\ processing' = processing
            /\ batches' = batches
            /\ broker' = IF c.accepted THEN Append(broker, c.ev) ELSE broker]_vars

\* C21 witness: with handlers registered and a queue adapter configured, an
\* accepted event waits in the broker, the in-memory queue is empty and no
\* handler batch has started.
C21_Witness ==
  /\ queueAdapter /\ handlers # <<>> /\ ~killSwitch
  /\ \E c \in CallIds : /\ calls[c].accepted
                         /\ \E j \in 1..Len(broker) : broker[j] = calls[c].ev
  /\ queue = <<>> /\ ~processing /\ batches = <<>>

\* C22: the kill switch is read once per runHandlersForEvent call, before
\* the first handler.  A call that found it off invokes every handler of
\* the list whatever the switch does meanwhile: a step that engages the
\* switch leaves every batch as it is, a handler that settles while the
\* switch is engaged is followed by the next handler, and a finished call
\* has invoked the whole list.
C22_SwitchIsNotPreemption ==
  /\ [](\A b \in BatchIds :
          /\ batches[b].kill => batches[b].invoked = <<>>
          /\ (~batches[b].kill /\ batches[b].done /\ ~batches[b].failed)
               => batches[b].invoked = batches[b].start)
  /\ [][killSwitch' # killSwitch => batches' = batches]_vars
  /\ [][\A b \in BatchIds :
          (batches'[b].active # batches[b].active
             /\ Len(batches[b].invoked) < Len(batches[b].iter))
          => Len(batches'[b].invoked) = Len(batches[b].invoked) + 1]_vars

\* C22 witness: a call that started with the switch off has finished after
\* invoking every handler, and its last handler was invoked while the
\* switch was engaged.
C22_Witness ==
  \E b \in BatchIds :
    /\ ~batches[b].kill /\ batches[b].done
    /\ Len(batches[b].invoked) = 2
    /\ batches[b].invoked = batches[b].start
    /\ batches[b].gates = <<FALSE, TRUE>>

\* the boolean a request body value stands for
Truthy(v) == v \in {JsTrue, "yes", JsOne}

C24_WatcherSurvivesStoreError ==
  /\ [][\A s \in TickIds :
          (/\ TickOp(ticks[s]) \in {"get", "del"}
           /\ ticks'[s] # ticks[s]
           /\ ticks'[s] # Advance(ticks[s]))
          => /\ ticks'[s] = IdleTick
             /\ reloadStarts' = reloadStarts
             /\ flag' = flag]_vars
  /\ [](\A s \in TickIds : ticks[s].pc = 0 => ENABLED PollTick(s))
  /\ (failedAt # <<>> /\ unserved) ~> ~unserved

\* C24 witness: a poll failed, the flag was set after that, and a reload
\* callback started after the set.
C24_Witness ==
  /\ failedAt # <<>>
  /\ setCount > failedAt[1]
  /\ reloadStarts > failedAt[2]
  /\ failedAt[1] = 0
  /\ ~unserved

ProducedIds == 1..Len(produced)

\* C25 (as claimed): on both producer paths a submission is collapsed only
\* when an accepted submission of the same key was made at most the dedup
\* window earlier.
C25_KeyForgottenAfterWindow ==
  /\ \A c \in CallIds :
       ~calls[c].accepted =>
         \E d \in 1..(c - 1) :
           /\ calls[d].accepted
           /\ eventKey(calls[d].ev) = eventKey(calls[c].ev)
           /\ calls[c].at - calls[d].at <= DEDUP_TTL_MS
  /\ \A p \in ProducedIds :
       (produced[p].withSet /\ ~produced[p].accepted) =>
         \E q \in 1..(p - 1) :
           /\ produced[q].withSet /\ produced[q].accepted
           /\ eventKey(produced[q].ev) = eventKey(produced[p].ev)
           /\ produced[p].at - produced[q].at <= DEDUP_TTL_MS

\* C26 (as claimed): of two enqueueRaw calls with the same dedup key made
\* less than the dedup window apart, at most one adds an entry to the queue.
C26_ProducersDeduplicated ==
  \A p, q \in ProducedIds :
    (/\ p < q
     /\ eventKey(produced[p].ev) = eventKey(produced[q].ev)
     /\ produced[q].at - produced[p].at < DEDUP_TTL_MS)
    => ~(produced[p].accepted /\ produced[q].accepted)

MutationIds == 1..Len(cfgLog)

Elems(s) == {s[i] : i \in 1..Len(s)}

\* C28: a register step puts the handler after all handlers of the list; an
\* unregister step removes the handler and leaves the others in their
\* order; a runHandlersForEvent call that starts takes the list as it is at
\* that moment, so it invokes no handler that was unregistered before,
\* unless that handler is registered again.
C28_RegisterAppendsUnregisterRemoves ==
  /\ [][regs' # regs =>
         /\ Len(handlers') = Len(handlers) + 1
         /\ SubSeq(handlers', 1, Len(handlers)) = handlers]_vars
  /\ [][(regs' = regs /\ handlers' # handlers) =>
         \E h \in Elems(handlers) :
           /\ h \notin Elems(handlers')
           /\ handlers' = SelectSeq(handlers, LAMBDA x : x # h)]_vars
  /\ [][Len(batches') > Len(batches) =>
         LET b == batches'[Len(batches')]
         IN /\ b.start = handlers
            /\ Elems(b.invoked) \subseteq Elems(handlers)]_vars
  /\ [](\A b \in BatchIds :
          /\ IsPrefix(batches[b].invoked, batches[b].iter)
          /\ batches[b].iter = batches[b].start
               => Elems(batches[b].invoked) \subseteq Elems(batches[b].start))

\* C28 witness: a call ran both registered handlers; the first handler was
\* then unregistered, and a call started after that ran to its end and
\* invoked the remaining handler only.
C28_Witness ==
  \E b1, b2 \in BatchIds :
    /\ b1 < b2
    /\ batches[b1].invoked = <<"h1", "h2">>
    /\ handlers = <<"h2">>
    /\ batches[b2].start = <<"h2">>
    /\ batches[b2].done
    /\ batches[b2].invoked = <<"h2">>

\* the events the socket of call i emitted after the call was made
HeardBy(i) ==
  {k \in 1..Len(socketEvents) : k > waits[i].since /\ socketEvents[k].s = waits[i].s}

\* the events that settle call i: its chat-result or a disconnect
SettlingFor(i) ==
  {k \in HeardBy(i) : \/ socketEvents[k].kind = "disconnect"
                      \/ socketEvents[k].eventId = waits[i].eventId}

FirstOf(S) == CHOOSE k \in S : \A j \in S : k <= j

\* C29: the promise of waitForChatResult(eventId) is settled by one call of
\* resolve or reject and by no second one; it is resolved with the message
\* of the first chat-result for eventId, is not settled by chat-results for
\* other ids, is rejected by the timeout or by a disconnect of the socket,
\* and once it is settled its two listeners are off the socket and its
\* timer is cleared.
C29_SettlesExactlyOnce ==
  \A i \in 1..Len(waits) :
    LET w == waits[i]
    IN /\ w.settles <= 1
       /\ (w.state = "pending") = (w.settles = 0)
       /\ w.state # "pending" => ~w.timer /\ ~w.handler /\ ~w.onDisconnect
       /\ w.state = "pending" => w.timer /\ w.handler /\ w.onDisconnect /\ SettlingFor(i) = {}
       /\ w.state = "resolved" =>
            /\ SettlingFor(i) # {}
            /\ socketEvents[FirstOf(SettlingFor(i))].kind = "chat-result"
            /\ w.value = socketEvents[FirstOf(SettlingFor(i))].message
       /\ w.state = "rejected" =>
            /\ w.value \in {TimedOut, SocketDisconnected}
            /\ w.value = SocketDisconnected =>
                 /\ SettlingFor(i) # {}
                 /\ socketEvents[FirstOf(SettlingFor(i))].kind = "disconnect"

\* C29 witness: a call stayed pending on a chat-result for another id, was
\* resolved by the first chat-result for its id, and a later chat-result
\* for its id with another message arrived after that.
C29_Witness ==
  \E i \in 1..Len(waits) :
    /\ waits[i].state = "resolved"
    /\ Len(socketEvents) = 3
    /\ \A k \in 1..3 : socketEvents[k].kind = "chat-result" /\ k \in HeardBy(i)
    /\ socketEvents[1].eventId # waits[i].eventId
    /\ socketEvents[2].eventId = waits[i].eventId
    /\ socketEvents[3].eventId = waits[i].eventId
    /\ socketEvents[3].message # socketEvents[2].message
    /\ waits[i].value = socketEvents[2].message

\* C30: every chat submission the API answered with 202 and an eventId is
\* eventually followed by a chat-result relayed for that eventId, the kill
\* switch being off and the worker running; a repeated text is included.
C30_AcceptedChatIsAnswered ==
  \A r \in 1..MaxRequests :
    (/\ r \in 1..Len(responses)
     /\ responses[r].route = "chat"
     /\ responses[r].status = 202)
      ~> (/\ r \in 1..Len(responses)
          /\ \E k \in 1..Len(relayed) : relayed[k] = responses[r].id)

FailedDispatches == {addFailed[i].n : i \in {j \in 1..Len(addFailed) : addFailed[j].path = "dispatch"}}

\* C31: a dispatch whose queueAdapter.add rejects leaves the dedup set as
\* it was, and the next dispatch of the same input is handed to the broker
\* (or fails again) instead of being returned as a duplicate.
C31_FailedAddLeavesDedupSet ==
  /\ [][Len(addFailed') > Len(addFailed) =>
         seenEventKeys' = seenEventKeys /\ dedupSet' = dedupSet]_vars
  /\ [](\A c \in FailedDispatches, d \in 1..Len(calls) :
          (/\ c < d
           /\ eventKey(calls[d].ev) = eventKey(calls[c].ev)
           /\ \A m \in (c + 1)..(d - 1) : eventKey(calls[m].ev) # eventKey(calls[c].ev))
            => (calls[d].accepted \/ d \in FailedDispatches))

\* C33: no onReload is started while an onReload started by an earlier
\* tick is still running, also when the flag is set again during a reload
\* that outlasts the poll interval (ticks that read the flag before either
\* deleted it are left aside).
C33_ReloadsNeverOverlap ==
  ~overlapped => reloadsRunning <= 1

\* every load of the cron scheduler started after the earlier ones had returned
LoadsInTurn == \A l \in 1..Len(cloads) : cloads[l].alone

DispatchesOf(t) == {i \in 1..Len(cdispatched) : cdispatched[i].task = t /\ cdispatched[i].ok}

\* C32: a one-shot task is dispatched at most once, whatever the order of
\* its timer firing, its removal from the store and a reload of the
\* scheduler (reloads that overlap each other are left aside).
C32_OneShotDispatchedOnce ==
  LoadsInTurn =>
    \A t \in CronTaskIds : ~isRecurring(t) => Cardinality(DispatchesOf(t)) <= 1

\* C38: a one-shot task whose dispatch failed, and which was neither
\* dispatched successfully nor cancelled, is still in the store; a
\* recurring task leaves the store only by being cancelled.
C38_FailedOneShotStaysStored ==
  \A t \in cstoreLog.added \ cstoreLog.cancelled :
    IF isRecurring(t) THEN t \in cstore
    ELSE (/\ \E i \in 1..Len(cdispatched) : cdispatched[i].task = t /\ ~cdispatched[i].ok
          /\ DispatchesOf(t) = {})
           => t \in cstore

PendingJobs(js, t) == {j \in 1..Len(js) : js[j].task = t /\ js[j].state = "pending"}

\* C39: when a reload of the cron scheduler completes there is one pending
\* job for each recurring task and each one-shot task with a future
\* execute_at among the tasks it read from the store, and no pending job
\* for any other task.
C39_OneJobPerStoredTask ==
  [][\A l \in 1..Len(cloads) :
       (cloads[l].reload /\ cloads[l].pc = "schedule" /\ cloads'[l].pc = "done") =>
         \A t \in CronTaskIds :
           Cardinality(PendingJobs(cjobs', t)) =
             IF t \in cloads[l].tasks /\ (isRecurring(t) \/ ~cronDue) THEN 1 ELSE 0]_vars

\* C34: a run of the chat handler that has ended dispatched exactly one
\* chat.turn_completed event and called deliverApiResult at most once,
\* whichever of its awaits threw.
C34_OneTurnOneDelivery ==
  \A i \in 1..Len(chatRuns) :
    chatRuns[i].pc \in {"resolved", "rejected"} =>
      /\ chatRuns[i].turns = 1
      /\ chatRuns[i].deliveries <= 1

RecordedFor(e) == {i \in 1..Len(responseStore) : responseStore[i].eventId = e}
RelayedFor(e) == {k \in 1..Len(relayed) : relayed[k] = e}

\* C35: each result posted to /api/internal/chat-result is emitted once as
\* a chat-result with its event id and is recorded once in the
\* responseStore under that id: an id has as many recorded messages as
\* results were relayed for it.
C35_RecordedOnceEmittedOnce ==
  \A r \in 1..Len(responses) :
    Cardinality(RecordedFor(responses[r].id)) = Cardinality(RelayedFor(responses[r].id))

\* the process uses the local loop only: no direct runHandlersForEvent call
LocalLoopProcess == \A b \in BatchIds : batches[b].owner # 0

\* the process is the event-queue worker: every dispatch comes from a handler
WorkerProcess == \A c \in CallIds : \E n \in 1..Len(nested) : nested[n].call = c

BatchesRunning == {b \in BatchIds : ~batches[b].done}

\* C36: in a process that uses the local loop and in the worker process,
\* the handlers of at most one event are in progress at any time, so the
\* handlers of an event dispatched by a running handler start after the
\* current event's handlers have settled; and when no handlers are in
\* progress no dispatched event is left waiting in the queue.
C36_BatchesNeverInterleave ==
  (LocalLoopProcess \/ WorkerProcess) =>
    /\ Cardinality(BatchesRunning) <= 1
    /\ BatchesRunning = {} => (queue = <<>> /\ ~processing)

\* C37: a runHandlersForEvent call that ran to its end invoked exactly the
\* handlers that were registered when it started, in that order, whatever
\* was registered or unregistered while it ran.
C37_BatchRunsHandlersAtStart ==
  \A b \in BatchIds :
    (batches[b].done /\ ~batches[b].kill) => batches[b].invoked = batches[b].start

(***************************************************************************)
(* The channel workers (slack, whatsapp): runWorker with start, onReload   *)
(* and stop, and the event queue startAdapter creates.                     *)
(***************************************************************************)
ChannelWorkerNames == {"slack", "whatsapp"}

\* createEventQueue({ connection: env.REDIS_URL }): a queue object of its
\* own, open until its close() is called
createEventQueue(w) ==
  [w EXCEPT !.queues = Append(@, TRUE), !.eventQueue = Len(w.queues) + 1]

\* await eventQueue.close(); eventQueue = null
closeEventQueue(w) ==
  IF w.eventQueue = 0 THEN w
  ELSE [w EXCEPT !.queues[w.eventQueue] = FALSE, !.eventQueue = 0]

ChannelFrame ==
  UNCHANGED <<routerVars, reloadVars, faults, responses, auditVars, scopeVars,
              normVars, killVars, failedAt, prodVars, cfgVars, waitVars,
              addFailed, cronVars, chatRuns, responseStore, nested>>

\* bootstrapWorker: await opts.start(), which calls startAdapter
ChannelBoot(n) ==
  /\ channelWorkers[n].state = "boot"
  /\ channelWorkers' = [channelWorkers EXCEPT ![n].state = "starting",
                                               ![n].starting = 1,
                                               ![n].starts = 1]
  /\ ChannelFrame

\* the reload callback: await loadPersisted(); await opts.onReload(), which
\* calls startAdapter
ChannelReload(n) ==
  /\ channelWorkers[n].state = "watching"
  /\ channelWorkers[n].starts < MaxAdapterStarts
  /\ channelWorkers' = [channelWorkers EXCEPT ![n].starting = @ + 1,
                                               ![n].starts = @ + 1]
  /\ ChannelFrame

\* startAdapter after its await of the adapter's stop: eventQueue =
\* createEventQueue(...); when it was the start of bootstrapWorker, the
\* reload watch and the signal handlers are set up next
StartAdapter(n) ==
  /\ channelWorkers[n].state \in {"starting", "watching"}
  /\ channelWorkers[n].starting > 0
  /\ LET w == createEventQueue(channelWorkers[n])
     IN channelWorkers' = [channelWorkers EXCEPT
                             ![n] = [w EXCEPT !.starting = @ - 1,
                                              !.state = "watching"]]
  /\ ChannelFrame

\* shutdown: closeReloadWatch(), then opts.stop()
ChannelShutdown(n) ==
  /\ channelWorkers[n].state = "watching"
  /\ channelWorkers' = [channelWorkers EXCEPT
                          ![n] = [closeEventQueue(channelWorkers[n])
                                    EXCEPT !.state = "stopped"]]
  /\ ChannelFrame

NextChannel ==
  \/ \E n \in ChannelWorkerNames : ChannelBoot(n)
  \/ \E n \in ChannelWorkerNames : ChannelReload(n)
  \/ \E n \in ChannelWorkerNames : StartAdapter(n)
  \/ \E n \in ChannelWorkerNames : ChannelShutdown(n)

SpecChannel == InitUnit /\ [][NextChannel]_vars

OpenQueues(n) ==
  {q \in 1..Len(channelWorkers[n].queues) : channelWorkers[n].queues[q]}

\* C40: a channel worker has at most one open event queue at any time,
\* however many reloads it ran, and none once its shutdown has run stop.
C40_OneOpenQueue ==
  \A n \in ChannelWorkerNames :
    /\ Cardinality(OpenQueues(n)) <= 1
    /\ channelWorkers[n].state = "stopped" => OpenQueues(n) = {}

====
